---- MODULE Spec2Model ----
(***************************************************************************)
(* Customer onboarding workflow: the Step Functions state machine          *)
(* (step_functions_definition.json), the stage Lambda handlers             *)
(* (id_verification, biometric_check, AML screening, account_creation)     *)
(* and the orchestrator Lambda (API routes and Step Functions actions),    *)
(* all working on one onboarding process record in DynamoDB.               *)
(*                                                                         *)
(* DynamoDB is modelled as a key-value store: put replaces the item,       *)
(* update sets the attributes of its SET expression and nothing else, and  *)
(* no request carries a ConditionExpression (none of the source's does).   *)
(* Every await of a handler is a point where another invocation may run;   *)
(* the stage handlers are therefore split at their first read of the       *)
(* process record (the ...Get actions) and the rest (the ...Run actions).  *)
(***************************************************************************)
EXTENDS Integers, Sequences, FiniteSets, TLC

\* ------------------------------------------------------------------ bounds
\* Number of Step Functions executions that may run on the process
\* (the one initOnboarding starts plus duplicate triggers).
MaxExec == 2
\* Number of customer records storeCustomerDetails may create.
MaxCustomers == 1
\* Longest customer name of the AML handler's specification.
MaxNameLen == 26
\* Largest number of alerts / potential matches a provider response carries.
MaxAlerts == 1

\* Most not-completed answers a statement job gives before it completes.
MaxPending == 11

\* Calls of getAccessToken that can be in flight together.
MaxCallers == 2
\* Last reading of the clock, in seconds.
MaxTime == 4
\* Most submissions of customer details to one process.
MaxSubmissions == 2

\* Largest risk score of a screening result (Math.min(riskScore, 100)).
MaxScore == 100
\* maxAttempts of getBankStatements.
maxAttempts == 10

Executions == 1..MaxExec
Environments == {"dev", "test", "prod"}

\* ------------------------------------------------------------- data model
\* A customer name, abstracted to what simulateAmlScreeningResult reads of
\* it: its length and whether it contains a PEP / a sanctions keyword.
\* The shortest keywords have 8 ('official') and 5 ('watch') characters.
NameOk(n) ==
  /\ n.pep => n.len >= 8
  /\ n.sanc => n.len >= 5
  /\ (n.pep /\ n.sanc) => n.len >= 13

Names ==
  {n \in [len : 1..MaxNameLen, pep : BOOLEAN, sanc : BOOLEAN] : NameOk(n)}

\* The names the workflow specification submits: one the simulation passes
\* (score 15) and one it sends to manual review (score 60).
WfNames ==
  {[len |-> 5, pep |-> FALSE, sanc |-> FALSE],
   [len |-> 20, pep |-> FALSE, sanc |-> FALSE]}

\* What the screening service answers: a result, or a failed call.
\* NotCalled stands where no call was made.
NotCalled == [kind |-> "none", riskScore |-> 0, alerts |-> 0, potentialMatches |-> 0]

ProviderError == [kind |-> "error", riskScore |-> 0, alerts |-> 0, potentialMatches |-> 0]

ProviderOk(score, alerts, matches) ==
  [kind |-> "ok", riskScore |-> score, alerts |-> alerts, potentialMatches |-> matches]

ProviderResponses ==
  {ProviderOk(s, a, m) : s \in 0..MaxScore, a \in 0..MaxAlerts, m \in 0..MaxAlerts}
    \cup {ProviderError}

\* The answers the workflow specification draws from: one for each
\* decision, and a failed call.
WfProviderResponses ==
  {ProviderOk(20, 0, 0), ProviderOk(60, 0, 0), ProviderOk(80, 0, 0), ProviderError}

\* financialData as far as generateRecommendations reads it and the
\* providers differ on it: cdr_data.income and
\* basiq_verification.affordabilityMetrics.income. 0 stands for a value
\* that is not there.
NoFinancialData == [written |-> FALSE, cdr_income |-> 0, basiq_income |-> 0]

\* The onboarding process item. status "" and the 0 ids stand for an
\* attribute the item does not have.
\* created_at is Date.now() at the put of initOnboarding, in milliseconds,
\* and expiry_time the TTL attribute, in seconds; 0: not there.
\* welcome_message is the text initOnboarding generated; "": not there.
NoProcess ==
  [present |-> FALSE, status |-> "", customer_id |-> 0, customer_details |-> FALSE,
   id_document |-> FALSE, selfie |-> FALSE, cdr_consent |-> "unset",
   financial_data |-> NoFinancialData, account_id |-> 0, failure_reason |-> "",
   created_at |-> 0, expiry_time |-> 0, welcome_message |-> ""]

\* The JSON document a Step Functions state hands to the next one. Each
\* Task's result replaces it (no ResultPath), so a field of an earlier
\* result is "absent" afterwards.
NoOutput ==
  [process_id |-> FALSE, id_verified |-> "absent", biometric_verified |-> "absent",
   financial_verified |-> "absent", aml_passed |-> "absent",
   manual_review_required |-> "absent", created |-> "absent"]

Bool(b) == IF b THEN "true" ELSE "false"

NoScreening ==
  [riskScore |-> -1, riskCategory |-> "", alerts |-> 0, potentialMatches |-> 0,
   simulated |-> FALSE]

VARIABLES
  env,        \* ENVIRONMENT of the deployment
  process,    \* the onboarding table's item of the process
  stray,      \* its item under a process_id initOnboarding never returned
  customers,  \* the customers table: customer_id i is customers[i]
  accounts,   \* the accounts table: account_id i is accounts[i]
  pc,         \* per execution: the state of the state machine it is in
  doc,        \* per execution: the JSON document of that state
  seen,       \* per execution: the item its running handler read
  log,        \* per execution: the Tasks it ran, with their results
  response,   \* what the API route called last answered
  now,        \* Date.now(), in milliseconds
  tokenCache, \* the module-level tokenCache of a financial client
  calls       \* per caller: its call of getAccessToken in flight

tokens == <<now, tokenCache, calls>>

\* What getAccessToken and the clock leave alone.
tables == <<env, process, stray, customers, accounts, pc, doc, seen, log, response>>

vars == <<env, process, stray, customers, accounts, pc, doc, seen, log, response, tokens>>

\* ------------------------------------------------------ AML risk scoring
\* getRiskCategory with its two upper thresholds exchanged.
getRiskCategoryBandsExchanged(riskScore) ==
  IF riskScore < 25 THEN "LOW"
  ELSE IF riskScore < 50 THEN "LOW_MEDIUM"
  ELSE IF riskScore < 75 THEN "MEDIUM_HIGH"
  ELSE IF riskScore < 90 THEN "MEDIUM"
  ELSE "HIGH"

getRiskCategory(riskScore) ==
  IF riskScore < 25 THEN "LOW"
  ELSE IF riskScore < 50 THEN "LOW_MEDIUM"
  ELSE IF riskScore < 75 THEN "MEDIUM"
  ELSE IF riskScore < 90 THEN "MEDIUM_HIGH"
  ELSE "HIGH"

Min(a, b) == IF a < b THEN a ELSE b

\* simulateAmlScreeningResult without its cap of the score.
simulateAmlScreeningResultUncapped(name) ==
  LET baseRiskScore == (name.len * 3) % 100
      afterPep == IF name.pep THEN baseRiskScore + 25 ELSE baseRiskScore
      afterSanc == IF name.sanc THEN afterPep + 40 ELSE afterPep
      count == (IF name.pep THEN 1 ELSE 0) + (IF name.sanc THEN 1 ELSE 0)
  IN [riskScore |-> afterSanc, riskCategory |-> getRiskCategory(afterSanc),
      alerts |-> count, potentialMatches |-> count, simulated |-> TRUE]

simulateAmlScreeningResult(name) ==
  LET baseRiskScore == (name.len * 3) % 100
      afterPep == IF name.pep THEN baseRiskScore + 25 ELSE baseRiskScore
      afterSanc == IF name.sanc THEN afterPep + 40 ELSE afterPep
      count == (IF name.pep THEN 1 ELSE 0) + (IF name.sanc THEN 1 ELSE 0)
      riskScore == Min(afterSanc, MaxScore)
  IN [riskScore |-> riskScore, riskCategory |-> getRiskCategory(riskScore),
      alerts |-> count, potentialMatches |-> count, simulated |-> TRUE]

\* The requests performAmlScreening sends to the screening service: none
\* in dev, and otherwise its one axios.post, whatever the service answers.
screeningRequests(environment, provider) ==
  IF environment = "dev" THEN 0 ELSE 1

\* performAmlScreening falling back to the simulation in prod too.
performAmlScreeningAlwaysFallback(environment, name, provider) ==
  IF environment # "dev" /\ provider.kind = "ok"
  THEN [threw |-> FALSE,
        result |-> [riskScore |-> provider.riskScore,
                    riskCategory |-> getRiskCategory(provider.riskScore),
                    alerts |-> provider.alerts,
                    potentialMatches |-> provider.potentialMatches,
                    simulated |-> FALSE]]
  ELSE [threw |-> FALSE, result |-> simulateAmlScreeningResult(name)]

\* performAmlScreening: [threw, result]. In dev the service is not called.
performAmlScreening(environment, name, provider) ==
  IF environment = "dev"
  THEN [threw |-> FALSE, result |-> simulateAmlScreeningResult(name)]
  ELSE IF provider.kind = "ok"
  THEN [threw |-> FALSE,
        result |-> [riskScore |-> provider.riskScore,
                    riskCategory |-> getRiskCategory(provider.riskScore),
                    alerts |-> provider.alerts,
                    potentialMatches |-> provider.potentialMatches,
                    simulated |-> FALSE]]
  ELSE IF environment # "prod"
  THEN [threw |-> FALSE, result |-> simulateAmlScreeningResult(name)]
  ELSE [threw |-> TRUE, result |-> NoScreening]

\* needsManualReview without its alerts clause.
needsManualReviewNoAlerts(r) ==
  r.riskScore > 50 \/ r.potentialMatches > 0

\* needsManualReview with its score threshold off by one.
needsManualReviewFrom50(r) ==
  r.riskScore >= 50 \/ r.alerts > 0 \/ r.potentialMatches > 0

needsManualReview(r) ==
  r.riskScore > 50 \/ r.alerts > 0 \/ r.potentialMatches > 0

isHighRisk(r) == r.riskScore > 75

\* The three branches of the handler on a screening result: the status it
\* writes, the flags it returns and the reason it records.
amlDecision(r) ==
  IF isHighRisk(r)
  THEN [status |-> "AML_SCREENING_FAILED", aml_passed |-> FALSE,
        manual_review_required |-> FALSE, note |-> "High AML/CTF risk score"]
  ELSE IF needsManualReview(r)
  THEN [status |-> "AML_MANUAL_REVIEW", aml_passed |-> FALSE,
        manual_review_required |-> TRUE,
        note |-> IF r.alerts > 0 THEN "Alerts detected"
                 ELSE "Potential watchlist matches"]
  ELSE [status |-> "AML_SCREENING_PASSED", aml_passed |-> TRUE,
        manual_review_required |-> FALSE, note |-> "passed"]

\* The catch block of the handler returning both flags true.
amlErrorBothTrue ==
  [status |-> "AML_SCREENING_ERROR", aml_passed |-> TRUE,
   manual_review_required |-> TRUE, note |-> "error"]

\* The catch block of the handler.
amlError ==
  [status |-> "AML_SCREENING_ERROR", aml_passed |-> FALSE,
   manual_review_required |-> TRUE, note |-> "error"]

\* The data the handler needs: the process item, its customer_id and the
\* customer record.
amlDataPresent(item, table) ==
  item.present /\ item.customer_id # 0 /\ item.customer_id \in DOMAIN table

\* exports.handler of the AML screening Lambda on the item it read.
\* answer is what the service answered to this invocation, NotCalled when
\* the handler did not get as far as calling it.
amlHandler(item, table, environment, provider) ==
  IF ~amlDataPresent(item, table)
  THEN [decision |-> amlError, screening |-> NoScreening, answer |-> NotCalled]
  ELSE LET s == performAmlScreening(environment, table[item.customer_id], provider)
           answer == IF environment = "dev" THEN NotCalled ELSE provider
       IN IF s.threw
          THEN [decision |-> amlError, screening |-> NoScreening, answer |-> answer]
          ELSE [decision |-> amlDecision(s.result), screening |-> s.result,
                answer |-> answer]

\* What the handler did with the screening service: the simulation stands
\* in for it in dev, and for a failed call outside prod. Its answers are
\* what the service answered and the reason the handler recorded with the
\* status on the item.
amlReport(item, table, environment, provider) ==
  LET r == amlHandler(item, table, environment, provider)
      called == amlDataPresent(item, table) /\ environment # "dev"
      standIn ==
        /\ amlDataPresent(item, table)
        /\ \/ environment = "dev"
           \/ provider.kind = "error" /\ environment # "prod"
  IN [answers |-> <<r.answer.kind, r.decision.note>>,
      failed |-> IF called /\ provider.kind = "error" THEN {"screening"} ELSE {},
      stubs |-> IF standIn THEN {"screening"} ELSE {},
      tagged |-> IF standIn /\ r.screening.simulated THEN {"screening"} ELSE {},
      reason |-> r.decision.note # "passed"]

\* ------------------------------------------------ the other stage handlers
\* verifyWithDVS answering a failed call with a verification everywhere.
verifyWithDVSOptimistic(environment, dvs) ==
  [verified |-> dvs # "rejected", reason |-> dvs = "rejected",
   stub |-> FALSE, simulated |-> FALSE]

\* verifyWithDVS on the answer of the Document Verification Service: is the
\* document verified, has the result a reason, is it the stand-in of the
\* catch block (stub), and does it carry simulated: true.
verifyWithDVS(environment, dvs) ==
  IF dvs = "verified"
  THEN [verified |-> TRUE, reason |-> FALSE, stub |-> FALSE, simulated |-> FALSE]
  ELSE IF dvs = "rejected"
  THEN [verified |-> FALSE, reason |-> TRUE, stub |-> FALSE, simulated |-> FALSE]
  ELSE IF environment = "dev"
  THEN [verified |-> TRUE, reason |-> FALSE, stub |-> TRUE, simulated |-> TRUE]
  ELSE [verified |-> FALSE, reason |-> TRUE, stub |-> FALSE, simulated |-> FALSE]

\* What extractTextFromDocument found on the document, each field as it
\* compares with the submitted details. name: "" (not found), "same" (the
\* same after normalizeText), "parts" (another name whose first and last
\* parts equal, contain or are contained in the submitted ones) or
\* "other"; dob: "" (not found), "same" (the same after normalizeDate) or
\* "other"; documentNumber: was one found.
ExtractedData ==
  [name : {"", "same", "parts", "other"}, dob : {"", "same", "other"},
   documentNumber : BOOLEAN]

nameMatch(name) == name \in {"same", "parts"}

\* validateExtractedData without its check of the document number.
validateExtractedDataWithoutNumber(extractedData, customerDetails) ==
  /\ customerDetails
  /\ extractedData.name # "" /\ extractedData.dob # ""
  /\ nameMatch(extractedData.name)
  /\ extractedData.dob = "same"

\* validateExtractedData: its valid.
validateExtractedData(extractedData, customerDetails) ==
  /\ customerDetails
  /\ extractedData.name # "" /\ extractedData.dob # ""
       /\ extractedData.documentNumber
  /\ nameMatch(extractedData.name)
  /\ extractedData.dob = "same"

\* exports.handler of the ID verification Lambda on the item it read:
\* "error" (the catch block), "failed" or "verified".
\* textractOk: the document analysis returned; extracted: the fields it
\* found; dvs: the answer of the Document Verification Service.
idVerification(item, environment, textractOk, extracted, dvs) ==
  IF ~item.present \/ ~item.id_document \/ ~textractOk THEN "error"
  ELSE IF ~validateExtractedData(extracted, item.customer_details) THEN "failed"
  ELSE IF verifyWithDVS(environment, dvs).verified THEN "verified"
  ELSE "failed"

\* What the handler can do on an item, over every answer of the services.
DvsAnswers == {"verified", "rejected", "error"}

idVerificationOutcomes(item, environment) ==
  {idVerification(item, environment, t, x, d) :
     t \in BOOLEAN, x \in ExtractedData, d \in DvsAnswers}

\* What a stage handler did with the services it calls: what they answered
\* (in call order, "none" for a call not made), the calls that failed, the
\* calls whose result is the stand-in of the code (stubs), the stand-ins that
\* carry simulated: true (tagged), and whether the value the handler
\* returns has a reason.
NoVerification ==
  [answers |-> <<>>, failed |-> {}, stubs |-> {}, tagged |-> {}, reason |-> FALSE]

IdAnswers == [textract : BOOLEAN, extracted : ExtractedData, dvs : DvsAnswers]

\* A document on which the submitted name and date of birth and a
\* document number were found.
Matching == [name |-> "same", dob |-> "same", documentNumber |-> TRUE]

\* The answers the workflow specification draws from: one for each outcome.
WfIdAnswers ==
  {[textract |-> FALSE, extracted |-> Matching, dvs |-> "verified"],
   [textract |-> TRUE, extracted |-> [Matching EXCEPT !.name = "other"],
    dvs |-> "verified"],
   [textract |-> TRUE, extracted |-> Matching, dvs |-> "verified"]}

idVerificationReport(item, environment, a) ==
  LET atTextract == item.present /\ item.id_document
      atValidate == atTextract /\ a.textract
      valid == validateExtractedData(a.extracted, item.customer_details)
      atDvs == atValidate /\ valid
      d == verifyWithDVS(environment, a.dvs)
  IN [answers |-> <<IF atTextract THEN Bool(a.textract) ELSE "none",
                    IF atValidate /\ item.customer_details THEN Bool(valid)
                    ELSE "none",
                    IF atDvs THEN a.dvs ELSE "none",
                    IF atValidate THEN a.extracted.name ELSE "none",
                    IF atValidate THEN a.extracted.dob ELSE "none",
                    IF atValidate THEN Bool(a.extracted.documentNumber)
                    ELSE "none">>,
      failed |-> (IF atTextract /\ ~a.textract THEN {"textract"} ELSE {})
                   \cup (IF atDvs /\ a.dvs = "error" THEN {"dvs"} ELSE {}),
      stubs |-> IF atDvs /\ d.stub THEN {"dvs"} ELSE {},
      tagged |-> IF atDvs /\ d.simulated THEN {"dvs"} ELSE {},
      reason |->
        idVerification(item, environment, a.textract, a.extracted, a.dvs)
          # "verified"]

idVerificationStatus(outcome) ==
  IF outcome = "verified" THEN "ID_VERIFICATION_COMPLETE"
  ELSE IF outcome = "failed" THEN "ID_VERIFICATION_FAILED"
  ELSE "ID_VERIFICATION_ERROR"

\* exports.handler of the biometric check Lambda on the item it read.
\* selfieFace, idFace: "face", "none" or "error" (detectFaces);
\* compare: "match", "nomatch" or "error" (compareFaces);
\* liveness: "high", "low", "noface" or "error" (performLivenessDetection).
compareFacesMatched(environment, compare) ==
  IF compare = "error" THEN (IF environment = "dev" THEN "match" ELSE "error")
  ELSE compare

performLivenessDetection(environment, liveness) ==
  IF liveness = "noface" THEN "notlive"
  ELSE IF environment = "dev" THEN "live"
  ELSE IF liveness = "error" THEN "error"
  ELSE IF liveness = "high" THEN "live"
  ELSE "notlive"

biometricCheck(item, environment, selfieFace, idFace, compare, liveness) ==
  IF ~item.present \/ ~item.selfie \/ ~item.id_document THEN "error"
  ELSE IF selfieFace = "error" THEN "error"
  ELSE IF selfieFace = "none" THEN "failed"
  ELSE IF idFace = "error" THEN "error"
  ELSE IF idFace = "face" /\ compareFacesMatched(environment, compare) = "error"
  THEN "error"
  ELSE IF idFace = "face" /\ compareFacesMatched(environment, compare) = "nomatch"
  THEN "failed"
  ELSE IF performLivenessDetection(environment, liveness) = "error" THEN "error"
  ELSE IF performLivenessDetection(environment, liveness) = "notlive" THEN "failed"
  ELSE "verified"

FaceAnswers == {"face", "none", "error"}
CompareAnswers == {"match", "nomatch", "error"}
LivenessAnswers == {"high", "low", "noface", "error"}

biometricCheckOutcomes(item, environment) ==
  {biometricCheck(item, environment, s, i, c, l) :
     s \in FaceAnswers, i \in FaceAnswers, c \in CompareAnswers,
     l \in LivenessAnswers}

BiometricAnswers ==
  [selfie : FaceAnswers, id : FaceAnswers, compare : CompareAnswers,
   liveness : LivenessAnswers]

\* The answers the workflow specification draws from: one for each outcome.
WfBiometricAnswers ==
  {[selfie |-> "error", id |-> "face", compare |-> "match", liveness |-> "high"],
   [selfie |-> "none", id |-> "face", compare |-> "match", liveness |-> "high"],
   [selfie |-> "face", id |-> "face", compare |-> "match", liveness |-> "high"]}

\* compareFaces and performLivenessDetection hand back their development
\* result, which carries simulated: true, for a failed call in dev;
\* performLivenessDetection also for every face it analysed in dev.
biometricCheckReport(item, environment, a) ==
  LET atSelfie == item.present /\ item.selfie /\ item.id_document
      atId == atSelfie /\ a.selfie = "face"
      atCompare == atId /\ a.id = "face"
      atLiveness ==
        /\ atId
        /\ a.id # "error"
        /\ a.id = "face" => compareFacesMatched(environment, a.compare) = "match"
      compareStub == atCompare /\ a.compare = "error" /\ environment = "dev"
      livenessStub == atLiveness /\ a.liveness # "noface" /\ environment = "dev"
  IN [answers |-> <<IF atSelfie THEN a.selfie ELSE "none",
                    IF atId THEN a.id ELSE "none",
                    IF atCompare THEN a.compare ELSE "none",
                    IF atLiveness THEN a.liveness ELSE "none">>,
      failed |-> (IF atSelfie /\ a.selfie = "error" THEN {"detectFaces"} ELSE {})
                   \cup (IF atId /\ a.id = "error" THEN {"detectFaces"} ELSE {})
                   \cup (IF atCompare /\ a.compare = "error"
                         THEN {"compareFaces"} ELSE {})
                   \cup (IF atLiveness /\ a.liveness = "error"
                         THEN {"liveness"} ELSE {}),
      stubs |-> (IF compareStub THEN {"compareFaces"} ELSE {})
                  \cup (IF livenessStub THEN {"liveness"} ELSE {}),
      tagged |-> (IF compareStub THEN {"compareFaces"} ELSE {})
                   \cup (IF livenessStub THEN {"liveness"} ELSE {}),
      reason |->
        biometricCheck(item, environment, a.selfie, a.id, a.compare, a.liveness)
          # "verified"]

biometricStatus(outcome) ==
  IF outcome = "verified" THEN "BIOMETRIC_VERIFICATION_COMPLETE"
  ELSE IF outcome = "failed" THEN "BIOMETRIC_VERIFICATION_FAILED"
  ELSE "BIOMETRIC_VERIFICATION_ERROR"

\* ------------------------------------------------- the financial providers
\* An error message is the sequence of its parts: new Error(`A: ${e.message}`)
\* puts "A" in front of the parts of e, and message.includes(part) is
\* membership among them.
Wrap(prefix, message) == <<prefix>> \o message

Includes(message, part) == \E i \in 1..Len(message) : message[i] = part

\* What a financial client hands back: a result or a thrown error.
\* stub: the result is the client's mock data; simulated: it carries
\* simulated: true.
Returned(income) ==
  [ok |-> TRUE, income |-> income, error |-> <<>>, polls |-> 0,
   stub |-> FALSE, simulated |-> FALSE]

Thrown(message) ==
  [ok |-> FALSE, income |-> 0, error |-> message, polls |-> 0,
   stub |-> FALSE, simulated |-> FALSE]

\* getMockCdrData, getMockVerificationResult, getMockBankStatements and
\* getMockAggregatedData: objects without a simulated property.
Mock(income) == [Returned(income) EXCEPT !.stub = TRUE]

\* The income figures of getMockCdrData and getMockVerificationResult.
MockIncome == 6500

Mocked(environment) == environment = "dev" \/ environment = "test"

\* What the providers answer. cdr, basiq, yodlee: a result (with the income
\* it reports) or a failed call. illion: no session, a failed status call,
\* or a job that reports not completed `pending` times and then COMPLETED.
\* bsb, npp: the two clients whose modules are not part of the source; a
\* call of theirs returns or throws.
Incomes == {6500, 7000}

ClientAnswers == [kind : {"ok"}, income : Incomes] \cup {[kind |-> "error", income |-> 0]}

IllionAnswers ==
  [kind : {"job"}, pending : 0..MaxPending]
    \cup {[kind |-> "nosession", pending |-> 0], [kind |-> "pollerror", pending |-> 0]}

FinancialAnswers ==
  [cdr : ClientAnswers, basiq : ClientAnswers, illion : IllionAnswers,
   yodlee : {"ok", "error"}, bsb : {"ok", "error"}, npp : {"ok", "error"}]

AllOk(pending) ==
  [cdr |-> [kind |-> "ok", income |-> 6500], basiq |-> [kind |-> "ok", income |-> 7000],
   illion |-> [kind |-> "job", pending |-> pending],
   yodlee |-> "ok", bsb |-> "ok", npp |-> "ok"]

\* The answers the workflow specification draws from: every provider
\* answering (the job completing at its second poll), the consent-scoped
\* source failing, and a job that never completes.
WfFinancialAnswers ==
  {AllOk(1), [AllOk(1) EXCEPT !.cdr = [kind |-> "error", income |-> 0]], AllOk(maxAttempts)}

\* fetchData falling back to its mock data in every environment.
fetchDataAlwaysFallback(environment, cdr) ==
  IF Mocked(environment) \/ cdr.kind = "error" THEN Returned(MockIncome)
  ELSE Returned(cdr.income)

\* cdrClient.fetchData
fetchData(environment, cdr) ==
  IF Mocked(environment) THEN Mock(MockIncome)
  ELSE IF cdr.kind = "error"
  THEN Thrown(Wrap("Failed to fetch CDR data", <<"request failed">>))
  ELSE Returned(cdr.income)

\* basiqClient.verifyAccount; the income is affordabilityMetrics.income.
verifyAccount(environment, basiq, cdrData) ==
  IF Mocked(environment) THEN Mock(cdrData.income)
  ELSE IF basiq.kind = "error"
  THEN Thrown(Wrap("Failed to verify account with Basiq", <<"request failed">>))
  ELSE Returned(basiq.income)

\* getJobResults leaving the cause out of the error it throws.
getJobResultsLosingCause(illion, call) ==
  IF illion.kind = "pollerror" \/ call <= illion.pending
  THEN Thrown(<<"Failed to retrieve Illion job results">>)
  ELSE Returned(0)

\* getJobResults at its call number `call` (production path: a status other
\* than COMPLETED is thrown inside the try block and leaves wrapped).
getJobResults(illion, call) ==
  IF illion.kind = "pollerror"
  THEN Thrown(Wrap("Failed to retrieve Illion job results", <<"request failed">>))
  ELSE IF call <= illion.pending
  THEN Thrown(Wrap("Failed to retrieve Illion job results", <<"Job not completed">>))
  ELSE Returned(0)

\* The polling loop of getBankStatements, entered with `attempts` polls
\* made and not completed. polls counts the calls of getJobResults.
RECURSIVE pollJob(_, _)
pollJob(illion, attempts) ==
  IF attempts < maxAttempts
  THEN LET results == getJobResults(illion, attempts + 1)
       IN IF results.ok THEN [results EXCEPT !.polls = attempts + 1]
          ELSE IF Includes(results.error, "Job not completed")
          THEN pollJob(illion, attempts + 1)
          ELSE [results EXCEPT !.polls = attempts + 1]
  ELSE [Thrown(<<"Timed out waiting for bank statement retrieval">>)
          EXCEPT !.polls = attempts]

\* getBankStatements falling back to its mock data in every environment.
getBankStatementsAlwaysFallback(environment, illion) ==
  IF Mocked(environment) THEN Returned(0)
  ELSE IF illion.kind = "nosession" THEN Returned(0)
  ELSE LET polled == pollJob(illion, 0)
       IN IF polled.ok THEN polled ELSE [Returned(0) EXCEPT !.polls = polled.polls]

\* illionClient.getBankStatements
getBankStatements(environment, illion) ==
  IF Mocked(environment) THEN Mock(0)
  ELSE IF illion.kind = "nosession"
  THEN Thrown(Wrap("Failed to get bank statements from Illion",
                   Wrap("Failed to create Illion session", <<"request failed">>)))
  ELSE LET polled == pollJob(illion, 0)
       IN IF polled.ok THEN polled
          ELSE [polled EXCEPT
                  !.error = Wrap("Failed to get bank statements from Illion", @)]

\* yodleeClient.aggregateData
aggregateData(environment, yodlee) ==
  IF Mocked(environment) THEN Mock(0)
  ELSE IF yodlee = "ok" THEN Returned(0)
  ELSE Thrown(Wrap("Failed to aggregate data with Yodlee", <<"request failed">>))

\* bsbClient.validateBSB and nppClient.checkPaymentCapability, seen from
\* their call sites.
validateBSB(bsb) == IF bsb = "ok" THEN Returned(0) ELSE Thrown(<<"BSB validation failed">>)

checkPaymentCapability(npp) ==
  IF npp = "ok" THEN Returned(0) ELSE Thrown(<<"NPP check failed">>)

\* The Income line of the profile generateRecommendations builds:
\* financialData.cdr_data?.income || 'Unknown'. Unknown stands for 'Unknown'.
Unknown == -1

\* What generateRecommendations returns: the generated text, or the three
\* default products of its catch block.
DefaultRecommendations ==
  <<"Everyday Banking Account", "Savings Account", "Debit Card">>

\* generateRecommendations handing on the failure of the text generation.
recommendationsNoDefault(bedrock) ==
  IF bedrock = "text" THEN <<"responseBody.content[0].text">> ELSE <<>>

recommendations(bedrock) ==
  IF bedrock = "text" THEN <<"responseBody.content[0].text">>
  ELSE DefaultRecommendations

generateRecommendationsVerifierFirst(financialData) ==
  IF financialData.basiq_income # 0 THEN financialData.basiq_income
  ELSE IF financialData.cdr_income # 0 THEN financialData.cdr_income
  ELSE Unknown

generateRecommendations(financialData) ==
  IF financialData.cdr_income # 0 THEN financialData.cdr_income ELSE Unknown

\* No provider asked.
NoAnswers ==
  [cdr |-> [kind |-> "none", income |-> 0], basiq |-> [kind |-> "none", income |-> 0],
   illion |-> [kind |-> "none", pending |-> 0],
   yodlee |-> "none", bsb |-> "none", npp |-> "none"]

\* What the providers answered to the clients that ask them: in dev and
\* test the four clients of the source return their mock data without a
\* request.
Heard(environment, a) ==
  IF Mocked(environment)
  THEN [NoAnswers EXCEPT !.bsb = a.bsb, !.npp = a.npp]
  ELSE a

\* What a Task of the orchestrator did. For performFinancialVerification:
\* its outcome, the reason it returns, the clients it called in order, the
\* polls of the statement job, the financial_data it wrote and what the
\* providers answered. For completeOnboarding: the financial_data it read
\* and the income of the profile it built from it.
\* stubs, tagged: the clients whose result was their mock data, and those
\* whose result carried simulated: true. recommendations: what
\* completeOnboarding returns as recommendations.
NoFinancial ==
  [outcome |-> "none", reason |-> <<>>, called |-> <<>>, polls |-> 0,
   data |-> NoFinancialData, answers |-> NoAnswers, income |-> Unknown,
   stubs |-> {}, tagged |-> {}, recommendations |-> <<>>]

Fin(outcome, reason, called) ==
  [NoFinancial EXCEPT !.outcome = outcome, !.reason = reason, !.called = called]

Clients == <<"cdr", "basiq", "illion", "yodlee", "bsb", "npp">>

\* performFinancialVerification on the item it read: "notfound" (it
\* throws, and exports.handler answers with a 500 document), "noconsent"
\* (it returns before the try block, writing nothing), "failed" (the catch
\* block) or "verified". a: what the providers answer when asked.
performFinancialVerification(item, table, environment, a) ==
  IF ~item.present THEN Fin("notfound", <<>>, <<>>)
  ELSE IF item.cdr_consent # "true"
  THEN Fin("noconsent", <<"CDR consent not granted">>, <<>>)
  ELSE IF item.customer_id \notin DOMAIN table
  THEN Fin("failed", <<"Customer not found">>, <<>>)
  ELSE
    LET cdrData == fetchData(environment, a.cdr)
        basiqVerification == verifyAccount(environment, a.basiq, cdrData)
        bankStatements == getBankStatements(environment, a.illion)
        enrichedData == aggregateData(environment, a.yodlee)
        bsbValidation == validateBSB(a.bsb)
        nppStatus == checkPaymentCapability(a.npp)
        results == <<cdrData, basiqVerification, bankStatements, enrichedData,
                     bsbValidation, nppStatus>>
        Stubs(n) == {Clients[i] : i \in {j \in 1..n : results[j].stub}}
        Tagged(n) == {Clients[i] : i \in {j \in 1..n : results[j].simulated}}
        \* the catch block, the n-th client having thrown r
        Failed(r, n) ==
          [Fin("failed", r.error, SubSeq(Clients, 1, n))
             EXCEPT !.polls = IF n >= 3 THEN bankStatements.polls ELSE 0,
                    !.answers = Heard(environment, a),
                    !.stubs = Stubs(n), !.tagged = Tagged(n)]
    IN IF ~cdrData.ok THEN Failed(cdrData, 1)
       ELSE IF ~basiqVerification.ok THEN Failed(basiqVerification, 2)
       ELSE IF ~bankStatements.ok THEN Failed(bankStatements, 3)
       ELSE IF ~enrichedData.ok THEN Failed(enrichedData, 4)
       ELSE IF ~bsbValidation.ok THEN Failed(bsbValidation, 5)
       ELSE IF ~nppStatus.ok THEN Failed(nppStatus, 6)
       ELSE [Fin("verified", <<>>, Clients)
               EXCEPT !.polls = bankStatements.polls,
                      !.answers = Heard(environment, a),
                      !.stubs = Stubs(6), !.tagged = Tagged(6),
                      !.data = [written |-> TRUE, cdr_income |-> cdrData.income,
                                basiq_income |-> basiqVerification.income]]

\* What the put of the account record and the update of the process item
\* after it answer to one invocation of the account creation handler.
AccountAnswers == [put : BOOLEAN, update : BOOLEAN]

\* createBankAccount in the handler: TRUE when the handler reaches it and
\* its put succeeds, which leaves the account record.
createBankAccount(item, table, a) ==
  /\ item.present
  /\ item.customer_id # 0
  /\ item.customer_id \in DOMAIN table
  /\ a.put

\* exports.handler of the account creation Lambda on the item it read:
\* TRUE (created: true) when createBankAccount returned and, after the
\* notifications, the update of the process item succeeded too.
accountCreation(item, table, a) ==
  /\ createBankAccount(item, table, a)
  /\ a.update

\* The calls of the handler after its two reads, in their order: the put
\* of createBankAccount, sendAccountCreationNotifications (which keeps
\* its own errors) and the update of the process item; the error of the
\* put or of the update is returned as the reason.
accountCreationReport(item, table, a) ==
  LET atPut == item.present /\ item.customer_id # 0 /\ item.customer_id \in DOMAIN table
      put == createBankAccount(item, table, a)
  IN [answers |-> <<IF atPut THEN Bool(a.put) ELSE "none",
                    IF put THEN "sent" ELSE "none",
                    IF put THEN Bool(a.update) ELSE "none">>,
      failed |-> (IF atPut /\ ~a.put THEN {"accounts"} ELSE {})
                   \cup (IF put /\ ~a.update THEN {"onboarding"} ELSE {}),
      stubs |-> {}, tagged |-> {},
      reason |-> ~accountCreation(item, table, a)]

\* ------------------------------------------- the state machine definition
\* The Choice states: the next state for the document d. A Choice whose
\* variable is missing from the document fails the execution.
\* The ID Verification Check going on whatever the signal.
idVerificationChoiceAlwaysOn(d) ==
  IF d.id_verified = "absent" THEN "ExecutionFailed"
  ELSE "Biometric Authentication"

idVerificationChoice(d) ==
  IF d.id_verified = "absent" THEN "ExecutionFailed"
  ELSE IF d.id_verified = "true" THEN "Biometric Authentication"
  ELSE "ID Verification Failed"

biometricChoice(d) ==
  IF d.biometric_verified = "absent" THEN "ExecutionFailed"
  ELSE IF d.biometric_verified = "true" THEN "Financial Data Verification"
  ELSE "Biometric Verification Failed"

\* The Financial Check going on whatever the signal.
financialChoiceAlwaysOn(d) ==
  IF d.financial_verified = "absent" THEN "ExecutionFailed"
  ELSE "AML Screening"

financialChoice(d) ==
  IF d.financial_verified = "absent" THEN "ExecutionFailed"
  ELSE IF d.financial_verified = "true" THEN "AML Screening"
  ELSE "Financial Verification Failed"

\* The AML Check without its manual review choice.
amlChoiceNoReview(d) ==
  IF d.aml_passed = "absent" THEN "ExecutionFailed"
  ELSE IF d.aml_passed = "true" THEN "Account Creation"
  ELSE "AML Screening Failed"

amlChoice(d) ==
  IF d.aml_passed = "absent" THEN "ExecutionFailed"
  ELSE IF d.aml_passed = "true" THEN "Account Creation"
  ELSE IF d.manual_review_required = "absent" THEN "ExecutionFailed"
  ELSE IF d.manual_review_required = "true" THEN "Manual Review"
  ELSE "AML Screening Failed"

\* The Account Creation Check going on to completion whatever the flag.
accountCreationChoiceAlwaysOn(d) ==
  IF d.created = "absent" THEN "ExecutionFailed"
  ELSE "Onboarding Complete"

\* The Account Creation Check with its branches exchanged.
accountCreationChoiceExchanged(d) ==
  IF d.created = "absent" THEN "ExecutionFailed"
  ELSE IF d.created = "true" THEN "Account Creation Failed"
  ELSE "Onboarding Complete"

accountCreationChoice(d) ==
  IF d.created = "absent" THEN "ExecutionFailed"
  ELSE IF d.created = "true" THEN "Onboarding Complete"
  ELSE "Account Creation Failed"

\* The NOTIFY_FAILURE states and the reason each passes.
FailureStates ==
  {"ID Verification Failed", "Biometric Verification Failed",
   "Financial Verification Failed", "AML Screening Failed",
   "Account Creation Failed"}

\* The NOTIFY_FAILURE states passing no reason.
failureReasonEmpty(state) == ""

failureReason(state) ==
  CASE state = "ID Verification Failed" -> "ID verification failed"
    [] state = "Biometric Verification Failed" -> "Biometric verification failed"
    [] state = "Financial Verification Failed" -> "Financial verification failed"
    [] state = "AML Screening Failed" -> "AML screening failed"
    [] state = "Account Creation Failed" -> "Account creation failed"

\* A Task state ends: its result becomes the document, and a next state
\* that cannot read $.process_id or its Choice variable from it fails the
\* execution. A Task with End: true has no next state to read it.
TaskDoneFull(e, state, result, provider, screening, financial, verification, next) ==
  /\ doc' = [doc EXCEPT ![e] = result]
  /\ log' = [log EXCEPT ![e] = Append(@, [state |-> state, output |-> result,
                                         provider |-> provider,
                                         screening |-> screening,
                                         financial |-> financial,
                                         verification |-> verification])]
  /\ pc' = [pc EXCEPT ![e] = IF result.process_id \/ next = "ExecutionSucceeded"
                             THEN next ELSE "ExecutionFailed"]
  /\ seen' = [seen EXCEPT ![e] = [read |-> FALSE, item |-> NoProcess]]

TaskDoneWith(e, state, result, provider, screening, financial, next) ==
  TaskDoneFull(e, state, result, provider, screening, financial, NoVerification,
               next)

TaskDone(e, state, result, provider, screening, next) ==
  TaskDoneWith(e, state, result, provider, screening, NoFinancial, next)

\* The attributes of the item the handler of each Task state uses.
ItemAttributes == DOMAIN NoProcess

Reads(state) ==
  CASE state = "ID Verification" ->
         {"present", "status", "id_document", "customer_details"}
    [] state = "Biometric Authentication" ->
         {"present", "status", "id_document", "selfie"}
    [] state = "Financial Data Verification" ->
         {"present", "status", "cdr_consent", "customer_id"}
    [] state = "AML Screening" -> {"present", "status", "customer_id"}
    [] state = "Account Creation" -> {"present", "status", "customer_id"}

\* The handler of a Task reads the process item (dynamoDB.get). Of the
\* item it keeps what the rest of the handler uses, and its status.
Get(e, state) ==
  /\ pc[e] = state
  /\ ~seen[e].read
  /\ seen' = [seen EXCEPT ![e] =
                [read |-> TRUE,
                 item |-> [a \in ItemAttributes |->
                             IF a \in Reads(state) THEN process[a] ELSE NoProcess[a]]]]
  /\ UNCHANGED <<tokens, stray, response, env, process, customers, accounts, pc, doc, log>>

Result(flag, value) == [NoOutput EXCEPT !.process_id = TRUE, ![flag] = Bool(value)]

\* ------------------------------------------------------- the token caches
\* getAccessToken of the cdr client and its tokenCache; the basiq and the
\* illion client have the same function, line for line, over a tokenCache
\* of their own. Date.now() counts milliseconds and expires_in seconds.
Second == 1000

Callers == 1..MaxCallers

\* The lifetimes the token endpoints grant, in seconds.
ExpiresIn == {1, 2}

\* A token, known by when its endpoint issued it and for how long; NoToken is
\* the null of an empty cache.
NoToken == [issued_at |-> 0, expires_in |-> 0]

EmptyCache == [token |-> NoToken, expiresAt |-> 0]

\* A call of getAccessToken: where it is, its reading of Date.now(), the
\* token the endpoint answered or it returns, and whether it returned the
\* cached token or a fresh one.
NoCall == [at |-> "idle", now |-> 0, token |-> NoToken, served |-> "none"]

\* The cache check taking a token at the instant it expires.
cachedThroughExpiry(cache, t) ==
  cache.token # NoToken /\ cache.expiresAt >= t

\* tokenCache.token && tokenCache.expiresAt > now
cached(cache, t) ==
  cache.token # NoToken /\ cache.expiresAt > t

\* The first lines of getAccessToken: it reads the clock and returns the
\* cached token, or goes on to the secret and the token request.
getAccessTokenEnter(c) ==
  /\ calls[c].at = "idle"
  /\ calls' = [calls EXCEPT ![c] =
       IF cached(tokenCache, now)
       THEN [at |-> "returned", now |-> now, token |-> tokenCache.token,
             served |-> "cache"]
       ELSE [at |-> "awaiting", now |-> now, token |-> NoToken,
             served |-> "none"]]
  /\ UNCHANGED <<now, tokenCache, tables>>

\* The token endpoint issues a token, at its own reading of the clock.
tokenIssued(c, expires_in) ==
  /\ calls[c].at = "awaiting"
  /\ calls' = [calls EXCEPT ![c].at = "answered",
                            ![c].token = [issued_at |-> now,
                                          expires_in |-> expires_in]]
  /\ UNCHANGED <<now, tokenCache, tables>>

\* The answer arrives: the call caches the token and returns it.
getAccessTokenStore(c) ==
  /\ calls[c].at = "answered"
  /\ tokenCache' =
       [token |-> calls[c].token,
        expiresAt |-> calls[c].now + (calls[c].token.expires_in * Second)]
  /\ calls' = [calls EXCEPT ![c].at = "returned", ![c].served = "fresh"]
  /\ UNCHANGED <<now, tables>>

\* The secret or the token request fails: the call throws, the cache as
\* it was.
getAccessTokenThrow(c) ==
  /\ calls[c].at = "awaiting"
  /\ calls' = [calls EXCEPT ![c].at = "threw"]
  /\ UNCHANGED <<now, tokenCache, tables>>

\* The caller goes on with what the call returned or threw.
getAccessTokenDone(c) ==
  /\ calls[c].at \in {"returned", "threw"}
  /\ calls' = [calls EXCEPT ![c] = NoCall]
  /\ UNCHANGED <<now, tokenCache, tables>>

\* Time passes.
Tick ==
  /\ now < MaxTime * Second
  /\ now' = now + Second
  /\ UNCHANGED <<tokenCache, calls, tables>>

\* ---------------------------------------------------------- the API routes
\* The routes and the triggers act on the process_id initOnboarding
\* returned, so each of them comes after it.
\* What a route answers: its status code, the parts of its error message
\* and the welcome message of its body.
NoResponse == [statusCode |-> 0, error |-> <<>>, welcome_message |-> ""]

Answer(statusCode, error) ==
  [statusCode |-> statusCode, error |-> error, welcome_message |-> ""]

\* What bedrock.invokeModel answers: a text, or a failed call.
BedrockAnswers == {"text", "error"}

DefaultWelcome == "Welcome to our bank! We're excited to help you open your new account."

\* generateWelcomeMessage handing on the failure of the text generation.
generateWelcomeMessageNoDefault(bedrock) ==
  IF bedrock = "text" THEN "responseBody.content[0].text" ELSE ""

generateWelcomeMessage(bedrock) ==
  IF bedrock = "text" THEN "responseBody.content[0].text" ELSE DefaultWelcome

\* The TTL of the item: 7 days, in seconds.
SevenDays == 7 * 24 * 60 * 60

\* The item initOnboarding puts at time t, with a generated welcome message.
NewProcess(t) ==
  [NoProcess EXCEPT !.present = TRUE, !.status = "INITIATED", !.created_at = t,
                    !.expiry_time = (t \div Second) + SevenDays,
                    !.welcome_message = generateWelcomeMessage("text")]

\* The body of POST /onboarding/details. process_id: "" (none), "unknown"
\* (no item has it) or "returned" (the one init returned);
\* customer_details: is it there; name: the name, NoName for none or '';
\* dob, address: are they there.
NoName == [len |-> 0, pep |-> FALSE, sanc |-> FALSE]

DetailsRequests ==
  {d \in [process_id : {"", "unknown", "returned"}, customer_details : BOOLEAN,
          name : WfNames \cup {NoName}, dob : BOOLEAN, address : BOOLEAN] :
     ~d.customer_details => (d.name = NoName /\ ~d.dob /\ ~d.address)}

Details(name) ==
  [process_id |-> "returned", customer_details |-> TRUE, name |-> name,
   dob |-> TRUE, address |-> TRUE]

\* The validation loop of storeCustomerDetails accepting a body without
\* an address.
missingFieldAddressOptional(data) ==
  IF data.name = NoName THEN "name"
  ELSE IF ~data.dob THEN "dob"
  ELSE ""

\* The first of the required fields the body lacks, "" if none.
missingField(data) ==
  IF data.name = NoName THEN "name"
  ELSE IF ~data.dob THEN "dob"
  ELSE IF ~data.address THEN "address"
  ELSE ""

\* What storeCustomerDetails answers: 400, 404, or 200 after its writes.
storeCustomerDetailsAnswer(data) ==
  IF data.process_id = "" \/ ~data.customer_details
  THEN Answer(400, <<"Missing required fields">>)
  ELSE IF missingField(data) # ""
  THEN Answer(400, <<"Missing required field", missingField(data)>>)
  ELSE IF data.process_id # "returned"
  THEN Answer(404, <<"Onboarding process not found">>)
  ELSE Answer(200, <<>>)

TypeOK ==
  /\ env \in Environments
  /\ process.present \in BOOLEAN
  /\ customers \in Seq(Names)
  /\ pc \in [Executions -> STRING]
  /\ \A e \in Executions : Len(log[e]) <= 7

\* Nothing asked of the API yet, the clock at its first reading, the token
\* caches as the client modules declare them and no token call in flight.
InitIdle ==
  /\ response = NoResponse
  /\ now = Second
  /\ tokenCache = EmptyCache
  /\ calls = [c \in Callers |-> NoCall]

Init ==
  /\ env \in Environments
  /\ process = NoProcess
  /\ customers = <<>>
  /\ accounts = <<>>
  /\ stray = NoProcess
  /\ pc = [e \in Executions |-> "NotStarted"]
  /\ doc = [e \in Executions |-> NoOutput]
  /\ seen = [e \in Executions |-> [read |-> FALSE, item |-> NoProcess]]
  /\ log = [e \in Executions |-> <<>>]
  /\ InitIdle

\* stepFunctions.startExecution with input {process_id}.
StartExecution(e) ==
  /\ pc[e] = "NotStarted"
  /\ pc' = [pc EXCEPT ![e] = "Collect Personal Details"]
  /\ doc' = [doc EXCEPT ![e] = [NoOutput EXCEPT !.process_id = TRUE]]

\* POST /onboarding/init: generates the welcome message, puts the item
\* (with its creation time and its TTL) and starts the first execution.
\* bedrock: what the text generation service answers.
InitOnboarding(bedrock) ==
  /\ ~process.present
  /\ process' = [NewProcess(now) EXCEPT
                   !.welcome_message = generateWelcomeMessage(bedrock)]
  /\ StartExecution(1)
  /\ response' = [Answer(200, <<>>) EXCEPT
                    !.welcome_message = generateWelcomeMessage(bedrock)]
  /\ UNCHANGED <<tokens, stray, env, customers, accounts, seen, log>>

\* A second start of the workflow on the same process_id (a duplicate or
\* retried trigger).
DuplicateTrigger(e) ==
  /\ process.present
  /\ e # 1
  /\ pc[e - 1] # "NotStarted"
  /\ StartExecution(e)
  /\ UNCHANGED <<tokens, stray, response, env, process, customers, accounts, seen, log>>

\* POST /onboarding/details. The process_id init returned can only be sent
\* once init has returned it.
storeCustomerDetails(data) ==
  /\ data.process_id = "returned" => process.present
  /\ LET answer == storeCustomerDetailsAnswer(data)
     IN /\ response' = answer
        /\ IF answer.statusCode = 200
           THEN /\ customers' = Append(customers, data.name)
                /\ process' = [process EXCEPT !.customer_id = Len(customers) + 1,
                                              !.customer_details = TRUE,
                                              !.status = "DETAILS_COLLECTED"]
           ELSE UNCHANGED <<process, customers>>
  /\ UNCHANGED <<tokens, stray, env, accounts, pc, doc, seen, log>>

\* The process_id the three routes below are sent with: the one
\* initOnboarding returned, or one it never returned, whose item is stray.
ProcessIds == {"returned", "unknown"}

\* The item dynamoDB.update works on, and that it leaves: an update of a
\* key that has no item puts one, made of the key and the attributes set.
Item(process_id) == IF process_id = "returned" THEN process ELSE stray

Updated(process_id, item) ==
  /\ process_id = "returned" => process.present
  /\ IF process_id = "returned"
     THEN process' = [item EXCEPT !.present = TRUE] /\ UNCHANGED stray
     ELSE stray' = [item EXCEPT !.present = TRUE] /\ UNCHANGED process

\* POST /onboarding/id
processIdDocument(process_id) ==
  /\ Updated(process_id, [Item(process_id) EXCEPT !.id_document = TRUE])
  /\ response' = Answer(200, <<>>)
  /\ UNCHANGED <<tokens, env, customers, accounts, pc, doc, seen, log>>

\* POST /onboarding/selfie
processSelfie(process_id) ==
  /\ Updated(process_id, [Item(process_id) EXCEPT !.selfie = TRUE])
  /\ response' = Answer(200, <<>>)
  /\ UNCHANGED <<tokens, env, customers, accounts, pc, doc, seen, log>>

\* POST /onboarding/cdr-consent
processCdrConsent(process_id, consent_granted) ==
  /\ Updated(process_id,
             IF consent_granted
             THEN [Item(process_id) EXCEPT !.cdr_consent = "true"]
             ELSE [Item(process_id) EXCEPT !.cdr_consent = "false",
                                           !.status = "CDR_CONSENT_DECLINED"])
  /\ response' = Answer(200, <<>>)
  /\ UNCHANGED <<tokens, env, customers, accounts, pc, doc, seen, log>>

\* ------------------------------------------------- the states of the workflow
\* Collect Personal Details (COLLECT_DETAILS): reads the item, writes nothing.
collectPersonalDetails(e) ==
  /\ pc[e] = "Collect Personal Details"
  /\ TaskDone(e, "Collect Personal Details",
              [NoOutput EXCEPT !.process_id = process.present],
              NotCalled, NoScreening, "ID Verification")
  /\ UNCHANGED <<tokens, stray, response, env, process, customers, accounts>>

IdVerificationGet(e) == Get(e, "ID Verification")

IdVerificationRun(e, a) ==
  /\ pc[e] = "ID Verification"
  /\ seen[e].read
  /\ LET outcome == idVerification(seen[e].item, env, a.textract, a.extracted, a.dvs)
     IN /\ process' = [process EXCEPT !.present = TRUE,
                                      !.status = idVerificationStatus(outcome)]
        /\ TaskDoneFull(e, "ID Verification",
                        Result("id_verified", outcome = "verified"),
                        NotCalled, NoScreening, NoFinancial,
                        idVerificationReport(seen[e].item, env, a),
                        "ID Verification Check")
  /\ UNCHANGED <<tokens, stray, response, env, customers, accounts>>

BiometricGet(e) == Get(e, "Biometric Authentication")

BiometricRun(e, a) ==
  /\ pc[e] = "Biometric Authentication"
  /\ seen[e].read
  /\ LET outcome == biometricCheck(seen[e].item, env, a.selfie, a.id, a.compare,
                                   a.liveness)
     IN /\ process' = [process EXCEPT !.present = TRUE,
                                      !.status = biometricStatus(outcome)]
        /\ TaskDoneFull(e, "Biometric Authentication",
                        Result("biometric_verified", outcome = "verified"),
                        NotCalled, NoScreening, NoFinancial,
                        biometricCheckReport(seen[e].item, env, a),
                        "Biometric Check")
  /\ UNCHANGED <<tokens, stray, response, env, customers, accounts>>

FinancialGet(e) == Get(e, "Financial Data Verification")

FinancialRun(e, a) ==
  /\ pc[e] = "Financial Data Verification"
  /\ seen[e].read
  /\ LET done == performFinancialVerification(seen[e].item, customers, env, a)
     IN /\ process' =
             IF done.outcome = "verified"
             THEN [process EXCEPT !.financial_data = done.data]
             ELSE IF done.outcome = "failed"
             THEN [process EXCEPT !.status = "FINANCIAL_VERIFICATION_FAILED"]
             ELSE process
        /\ TaskDoneWith(e, "Financial Data Verification",
                        IF done.outcome = "notfound" THEN NoOutput
                        ELSE Result("financial_verified", done.outcome = "verified"),
                        NotCalled, NoScreening, done, "Financial Check")
  /\ UNCHANGED <<tokens, stray, response, env, customers, accounts>>

AmlScreeningGet(e) == Get(e, "AML Screening")

AmlScreeningRun(e, provider) ==
  /\ pc[e] = "AML Screening"
  /\ seen[e].read
  /\ LET r == amlHandler(seen[e].item, customers, env, provider)
     IN /\ process' = [process EXCEPT !.present = TRUE,
                                      !.status = r.decision.status]
        /\ TaskDoneFull(e, "AML Screening",
                        [NoOutput EXCEPT
                           !.process_id = TRUE,
                           !.aml_passed = Bool(r.decision.aml_passed),
                           !.manual_review_required =
                              Bool(r.decision.manual_review_required)],
                        r.answer, r.screening, NoFinancial,
                        amlReport(seen[e].item, customers, env, provider),
                        "AML Check")
  /\ UNCHANGED <<tokens, stray, response, env, customers, accounts>>

AccountCreationGet(e) == Get(e, "Account Creation")

AccountCreationRun(e, a) ==
  /\ pc[e] = "Account Creation"
  /\ seen[e].read
  /\ LET created == accountCreation(seen[e].item, customers, a)
     IN /\ accounts' = IF createBankAccount(seen[e].item, customers, a)
                       THEN Append(accounts, [customer_id |-> seen[e].item.customer_id])
                       ELSE accounts
        /\ process' = IF created
                      THEN [process EXCEPT !.status = "ACCOUNT_CREATED",
                                           !.account_id = Len(accounts) + 1]
                      ELSE [process EXCEPT !.present = TRUE,
                                           !.status = "ACCOUNT_CREATION_ERROR"]
        /\ TaskDoneFull(e, "Account Creation", Result("created", created),
                        NotCalled, NoScreening, NoFinancial,
                        accountCreationReport(seen[e].item, customers, a),
                        "Account Creation Check")
  /\ UNCHANGED <<tokens, stray, response, env, customers>>

\* The Choice states.
Choice(e, state, next) ==
  /\ pc[e] = state
  /\ pc' = [pc EXCEPT ![e] = next]
  /\ UNCHANGED <<tokens, stray, response, env, process, customers, accounts, doc, seen, log>>

IdVerificationCheck(e) == Choice(e, "ID Verification Check", idVerificationChoice(doc[e]))

BiometricCheck(e) == Choice(e, "Biometric Check", biometricChoice(doc[e]))

FinancialCheck(e) == Choice(e, "Financial Check", financialChoice(doc[e]))

AmlCheck(e) == Choice(e, "AML Check", amlChoice(doc[e]))

AccountCreationCheck(e) ==
  Choice(e, "Account Creation Check", accountCreationChoice(doc[e]))

\* The end states: NOTIFY_FAILURE, MANUAL_REVIEW and COMPLETE_ONBOARDING.
\* What the orchestrator hands back for a handler that threw: the catch of
\* exports.handler returns {statusCode: 500, body}, a document without
\* process_id.
InternalServerError == NoOutput

\* The notification of an end state did not go out.
NotPublished == [NoVerification EXCEPT !.failed = {"sns"}]

\* notifyFailure removing the item instead of updating it.
notifyFailureDeleting(e) ==
  /\ pc[e] \in FailureStates
  /\ process' = NoProcess
  /\ TaskDoneFull(e, pc[e], InternalServerError, NotCalled, NoScreening,
                  NoFinancial, NotPublished, "ExecutionSucceeded")
  /\ UNCHANGED <<tokens, stray, response, env, customers, accounts>>

\* notifyFailure: after its update it reads process.env.SNS_TOPIC_ARN, and
\* process is the item it declared (const process = processResult.Item),
\* which has no env: a TypeError, rethrown by its catch, whatever SNS would
\* have answered.
notifyFailure(e) ==
  /\ pc[e] \in FailureStates
  /\ process' = IF process.present
                THEN [process EXCEPT !.status = "FAILED",
                                     !.failure_reason = failureReason(pc[e])]
                ELSE process
  /\ TaskDoneFull(e, pc[e], InternalServerError, NotCalled, NoScreening,
                  NoFinancial, NotPublished, "ExecutionSucceeded")
  /\ UNCHANGED <<tokens, stray, response, env, customers, accounts>>

\* triggerManualReview: the update, then sns.publish; published: did the
\* publish succeed. A failed publish is rethrown.
triggerManualReview(e, published) ==
  /\ pc[e] = "Manual Review"
  /\ process' = [process EXCEPT !.present = TRUE, !.status = "MANUAL_REVIEW"]
  /\ TaskDoneFull(e, "Manual Review",
                  IF published THEN [NoOutput EXCEPT !.process_id = TRUE]
                  ELSE InternalServerError,
                  NotCalled, NoScreening, NoFinancial,
                  IF published THEN NoVerification ELSE NotPublished,
                  "ExecutionSucceeded")
  /\ UNCHANGED <<tokens, stray, response, env, customers, accounts>>

\* completeOnboarding; bedrock: what the text generation service answers
\* to generateRecommendations.
completeOnboarding(e, bedrock) ==
  /\ pc[e] = "Onboarding Complete"
  /\ process' = IF process.present
                THEN [process EXCEPT !.status = "COMPLETED"]
                ELSE process
  /\ TaskDoneWith(e, "Onboarding Complete",
                  IF process.present THEN [NoOutput EXCEPT !.process_id = TRUE]
                  ELSE InternalServerError,
                  NotCalled, NoScreening,
                  [NoFinancial EXCEPT
                     !.data = process.financial_data,
                     !.income = generateRecommendations(process.financial_data),
                     !.recommendations =
                        IF process.present THEN recommendations(bedrock)
                        ELSE <<>>],
                  "ExecutionSucceeded")
  /\ UNCHANGED <<tokens, stray, response, env, customers, accounts>>

\* The workflow steps of execution e, the screening answers drawn from P.
Workflow(e, P) ==
  \/ collectPersonalDetails(e)
  \/ IdVerificationGet(e)
  \/ \E a \in WfIdAnswers : IdVerificationRun(e, a)
  \/ IdVerificationCheck(e)
  \/ BiometricGet(e)
  \/ \E a \in WfBiometricAnswers : BiometricRun(e, a)
  \/ BiometricCheck(e)
  \/ FinancialGet(e)
  \/ \E a \in WfFinancialAnswers : FinancialRun(e, a)
  \/ FinancialCheck(e)
  \/ AmlScreeningGet(e)
  \/ \E p \in P : AmlScreeningRun(e, p)
  \/ AmlCheck(e)
  \/ AccountCreationGet(e)
  \/ \E a \in AccountAnswers : AccountCreationRun(e, a)
  \/ AccountCreationCheck(e)
  \/ notifyFailure(e)
  \/ \E published \in BOOLEAN : triggerManualReview(e, published)
  \/ \E b \in BedrockAnswers : completeOnboarding(e, b)

Next ==
  \/ InitOnboarding("text")
  \/ \E e \in Executions : DuplicateTrigger(e)
  \/ \E n \in WfNames : Len(customers) < MaxCustomers /\ storeCustomerDetails(Details(n))
  \/ processIdDocument("returned")
  \/ processSelfie("returned")
  \/ \E g \in BOOLEAN : processCdrConsent("returned", g)
  \/ \E e \in Executions : Workflow(e, WfProviderResponses)

Spec == Init /\ [][Next]_vars

\* The execution initOnboarding starts, alone with the API routes, and
\* run by Step Functions to its end: every state of it that can be taken
\* is taken.
NextFair ==
  \/ \E b \in BedrockAnswers : InitOnboarding(b)
  \/ \E n \in WfNames : Len(customers) < MaxCustomers /\ storeCustomerDetails(Details(n))
  \/ processIdDocument("returned")
  \/ processSelfie("returned")
  \/ \E g \in BOOLEAN : processCdrConsent("returned", g)
  \/ Workflow(1, WfProviderResponses)

SpecFair ==
  Init /\ [][NextFair]_vars /\ WF_vars(Workflow(1, WfProviderResponses))

\* ------------------------------------------- the AML stage on every input
\* The AML Screening state of one execution, on every item the handler can
\* find (none, one without a customer, one with a customer of any name),
\* in every environment, for every answer of the screening service.
AmlItems ==
  {NoProcess,
   [NewProcess(Second) EXCEPT !.status = "INITIATED",
                     !.id_document = TRUE, !.selfie = TRUE],
   [NewProcess(Second) EXCEPT !.status = "BIOMETRIC_VERIFICATION_COMPLETE",
                     !.customer_id = 1, !.customer_details = TRUE,
                     !.id_document = TRUE, !.selfie = TRUE,
                     !.cdr_consent = "true",
                     !.financial_data = [written |-> TRUE, cdr_income |-> MockIncome,
                                         basiq_income |-> MockIncome]]}

InitAml ==
  /\ env \in Environments
  /\ process \in AmlItems
  /\ customers \in IF process.customer_id = 0 THEN {<<>>} ELSE {<<n>> : n \in Names}
  /\ accounts = <<>>
  /\ stray = NoProcess
  /\ pc = [e \in Executions |-> IF e = 1 THEN "AML Screening" ELSE "NotStarted"]
  /\ doc = [e \in Executions |-> [NoOutput EXCEPT !.process_id = (e = 1)]]
  /\ seen = [e \in Executions |-> [read |-> FALSE, item |-> NoProcess]]
  /\ log = [e \in Executions |-> <<>>]
  /\ InitIdle

NextAml ==
  \/ AmlScreeningGet(1)
  \/ \E p \in ProviderResponses : AmlScreeningRun(1, p)
  \/ AmlCheck(1)

SpecAml == InitAml /\ [][NextAml]_vars

\* ------------------------------------- the financial stage on every input
\* The Financial Data Verification state of one execution, on every item
\* the handler can find (none, one without a customer record, one with a
\* customer and each value of cdr_consent), in every environment, for
\* every answer of the financial providers.
FinItems ==
  {NoProcess,
   [NewProcess(Second) EXCEPT !.status = "BIOMETRIC_VERIFICATION_COMPLETE",
                     !.id_document = TRUE, !.selfie = TRUE, !.cdr_consent = "true"]}
    \cup {[NewProcess(Second) EXCEPT
                            !.status = "BIOMETRIC_VERIFICATION_COMPLETE",
                            !.customer_id = 1, !.customer_details = TRUE,
                            !.id_document = TRUE, !.selfie = TRUE,
                            !.cdr_consent = c] : c \in {"unset", "false", "true"}}

InitFin ==
  /\ env \in Environments
  /\ process \in FinItems
  /\ customers \in IF process.customer_id = 0 THEN {<<>>} ELSE {<<n>> : n \in WfNames}
  /\ accounts = <<>>
  /\ stray = NoProcess
  /\ pc = [e \in Executions |->
             IF e = 1 THEN "Financial Data Verification" ELSE "NotStarted"]
  /\ doc = [e \in Executions |-> [NoOutput EXCEPT !.process_id = (e = 1)]]
  /\ seen = [e \in Executions |-> [read |-> FALSE, item |-> NoProcess]]
  /\ log = [e \in Executions |-> <<>>]
  /\ InitIdle

NextFin ==
  \/ FinancialGet(1)
  \/ \E a \in FinancialAnswers : FinancialRun(1, a)
  \/ FinancialCheck(1)

SpecFin == InitFin /\ [][NextFin]_vars

\* ------------------------------------- the stage handlers on every input
\* The four verification stages that are Lambda functions of their own, each
\* started on every item its handler can find, in every environment and
\* for every answer of the services it calls.
StageStates ==
  {"ID Verification", "Biometric Authentication", "AML Screening", "Account Creation"}

StageItems ==
  {NoProcess,
   NewProcess(Second),
   [NewProcess(Second) EXCEPT !.id_document = TRUE],
   [NewProcess(Second) EXCEPT !.id_document = TRUE, !.selfie = TRUE],
   [NewProcess(Second) EXCEPT !.status = "DETAILS_COLLECTED",
                              !.customer_id = 1, !.customer_details = TRUE,
                              !.id_document = TRUE, !.selfie = TRUE,
                              !.cdr_consent = "true"]}

InitStages ==
  /\ env \in Environments
  /\ process \in StageItems
  /\ customers \in IF process.customer_id = 0 THEN {<<>>} ELSE {<<n>> : n \in WfNames}
  /\ accounts = <<>>
  /\ stray = NoProcess
  /\ pc \in {[e \in Executions |-> IF e = 1 THEN state ELSE "NotStarted"] :
               state \in StageStates}
  /\ doc = [e \in Executions |-> [NoOutput EXCEPT !.process_id = (e = 1)]]
  /\ seen = [e \in Executions |-> [read |-> FALSE, item |-> NoProcess]]
  /\ log = [e \in Executions |-> <<>>]
  /\ InitIdle

\* Each stage alone: the handler and the Choice on its result.
NextStages ==
  \/ /\ Len(log[1]) = 0
     /\ \/ IdVerificationGet(1)
        \/ \E a \in IdAnswers : IdVerificationRun(1, a)
        \/ BiometricGet(1)
        \/ \E a \in BiometricAnswers : BiometricRun(1, a)
        \/ AmlScreeningGet(1)
        \/ \E p \in ProviderResponses : AmlScreeningRun(1, p)
        \/ AccountCreationGet(1)
        \/ \E a \in AccountAnswers : AccountCreationRun(1, a)
  \/ /\ Len(log[1]) = 1
     /\ \/ IdVerificationCheck(1)
        \/ BiometricCheck(1)
        \/ AmlCheck(1)
        \/ AccountCreationCheck(1)

SpecStages == InitStages /\ [][NextStages]_vars

\* ----------------------------------------------------- the API on every body
\* The routes alone: init, then every body of POST /onboarding/details, up
\* to MaxSubmissions of them accepted, and the three other routes.
NextApi ==
  \/ \E b \in BedrockAnswers : InitOnboarding(b)
  \/ \E d \in DetailsRequests :
       Len(customers) < MaxSubmissions /\ storeCustomerDetails(d)
  \/ processIdDocument("returned")
  \/ processSelfie("returned")
  \/ \E g \in BOOLEAN : processCdrConsent("returned", g)

SpecApi == Init /\ [][NextApi]_vars

\* ------------------------------------------- the uploads on every process_id
\* init and the three routes that update the item without reading it, sent
\* with the process_id init returned and with one it never returned.
NextUploads ==
  \/ \E b \in BedrockAnswers : InitOnboarding(b)
  \/ \E id \in ProcessIds : processIdDocument(id)
  \/ \E id \in ProcessIds : processSelfie(id)
  \/ \E id \in ProcessIds, g \in BOOLEAN : processCdrConsent(id, g)

SpecUploads == Init /\ [][NextUploads]_vars

\* ----------------------------------------------- the token caches over time
\* MaxCallers callers of getAccessToken, their awaits interleaved, while
\* time passes. The clients ask for a token in prod only: in dev and test
\* they return their mock data before it.
NextTokens ==
  \/ \E c \in Callers : getAccessTokenEnter(c)
  \/ \E c \in Callers, x \in ExpiresIn : tokenIssued(c, x)
  \/ \E c \in Callers : getAccessTokenStore(c)
  \/ \E c \in Callers : getAccessTokenThrow(c)
  \/ \E c \in Callers : getAccessTokenDone(c)
  \/ Tick

InitTokens == Init /\ env = "prod"

SpecTokens == InitTokens /\ [][NextTokens]_vars

\* ----------------------------------------------------------------- claims
\* The Tasks execution e ran, and the entries of a given Task state.
Ran(e, state) == \E i \in 1..Len(log[e]) : log[e][i].state = state

\* The stages in workflow order, the flag each returns and the states a
\* non-positive signal of each leads to.
Stages ==
  <<"ID Verification", "Biometric Authentication", "Financial Data Verification",
    "AML Screening", "Account Creation">>

StageFlag ==
  <<"id_verified", "biometric_verified", "financial_verified", "aml_passed", "created">>

StageCheck ==
  <<"ID Verification Check", "Biometric Check", "Financial Check", "AML Check",
    "Account Creation Check">>

StageFailure ==
  <<{"ID Verification Failed"}, {"Biometric Verification Failed"},
    {"Financial Verification Failed"}, {"AML Screening Failed", "Manual Review"},
    {"Account Creation Failed"}>>

\* C1: an execution is in (or has run) Account Creation only after its own
\* ID verification, biometric, financial and AML Tasks ran in that order and
\* each returned its positive signal; an account record exists only if some
\* execution ran Account Creation; and after a Task returned a false signal
\* the execution is in that stage's Check or failure branch (for the AML
\* stage: AML Screening Failed or Manual Review) or has ended there, and it
\* ran no later stage.
C1_AccountOnlyAfterAllStagesPassed ==
  /\ \A e \in Executions :
       (pc[e] = "Account Creation" \/ Ran(e, "Account Creation")) =>
         /\ Len(log[e]) >= 5
         /\ log[e][1].state = "Collect Personal Details"
         /\ \A k \in 1..4 : /\ log[e][k + 1].state = Stages[k]
                            /\ log[e][k + 1].output[StageFlag[k]] = "true"
  /\ Len(accounts) > 0 => \E e \in Executions : Ran(e, "Account Creation")
  /\ \A e \in Executions : \A k \in 1..5 :
       (Len(log[e]) >= k + 1 /\ log[e][k + 1].state = Stages[k]
          /\ log[e][k + 1].output[StageFlag[k]] = "false") =>
         /\ Len(log[e]) <= k + 2
         /\ Len(log[e]) = k + 1 => pc[e] \in {StageCheck[k]} \cup StageFailure[k]
         /\ Len(log[e]) = k + 2 => /\ log[e][k + 2].state \in StageFailure[k]
                                   /\ pc[e] = "ExecutionSucceeded"

\* C1 witness: an execution created the account after passing every stage,
\* while another one was stopped by a false ID verification signal.
C1_Witness ==
  /\ \E e \in Executions :
       /\ Len(log[e]) >= 6
       /\ log[e][6].state = "Account Creation"
       /\ log[e][6].output.created = "true"
  /\ \E e \in Executions :
       /\ Len(log[e]) = 3
       /\ log[e][2].output.id_verified = "false"
       /\ log[e][3].state = "ID Verification Failed"
  /\ Len(accounts) = 1

\* The status graph of the workflow engine: its states and its edges.
GraphStates ==
  {"INITIATED", "DETAILS_COLLECTED", "ID_VERIFIED", "BIOMETRIC_VERIFIED",
   "FINANCIAL_VERIFIED", "AML_SCREENED", "ACCOUNT_CREATED", "COMPLETED",
   "ID_VERIFICATION_FAILED", "BIOMETRIC_VERIFICATION_FAILED",
   "FINANCIAL_VERIFICATION_FAILED", "AML_SCREENING_FAILED", "MANUAL_REVIEW",
   "ACCOUNT_CREATION_FAILED"}

GraphEdges ==
  {<<"INITIATED", "DETAILS_COLLECTED">>,
   <<"DETAILS_COLLECTED", "ID_VERIFIED">>,
   <<"DETAILS_COLLECTED", "ID_VERIFICATION_FAILED">>,
   <<"ID_VERIFIED", "BIOMETRIC_VERIFIED">>,
   <<"ID_VERIFIED", "BIOMETRIC_VERIFICATION_FAILED">>,
   <<"BIOMETRIC_VERIFIED", "FINANCIAL_VERIFIED">>,
   <<"BIOMETRIC_VERIFIED", "FINANCIAL_VERIFICATION_FAILED">>,
   <<"FINANCIAL_VERIFIED", "AML_SCREENED">>,
   <<"FINANCIAL_VERIFIED", "AML_SCREENING_FAILED">>,
   <<"FINANCIAL_VERIFIED", "MANUAL_REVIEW">>,
   <<"AML_SCREENED", "ACCOUNT_CREATED">>,
   <<"AML_SCREENED", "ACCOUNT_CREATION_FAILED">>,
   <<"ACCOUNT_CREATED", "COMPLETED">>}

\* C2: every status written to the process item is a state of the status
\* graph, and every change of status follows one of its edges.
C2_StatusFollowsGraph ==
  [][/\ process'.present => process'.status \in GraphStates
     /\ (process.present /\ process'.status # process.status) =>
          <<process.status, process'.status>> \in GraphEdges]_vars

TerminalStatuses == {"COMPLETED", "FAILED", "MANUAL_REVIEW"}

\* C3: once the status of the process is COMPLETED, FAILED or
\* MANUAL_REVIEW, no step changes it.
C3_TerminalStatusNeverChanges ==
  [][process.status \in TerminalStatuses => process'.status = process.status]_vars

\* The handler of execution e finishes (its write to the process item is
\* part of that step).
Finishes(e) == seen[e].read /\ ~seen'[e].read

\* C4: a handler that finishes after the stored status has moved away from
\* the status it read leaves the process item as it is.
C4_StaleWriteRejected ==
  [][\A e \in Executions :
       (Finishes(e) /\ seen[e].item.status # process.status) =>
         process' = process]_vars

\* C5: at most one account record is ever created for the process, and no
\* step replaces an account_id the process item already carries.
C5_AtMostOneAccount ==
  [][/\ Len(accounts') <= 1
     /\ process.account_id # 0 => process'.account_id = process.account_id]_vars

\* The AML Screening Task of an execution ended on a screening result
\* (performAmlScreening returned one).
Screened(x) == x.state = "AML Screening" /\ x.screening # NoScreening

\* The state the AML Check sends execution e to, once it got there.
AfterAmlCheck(e) ==
  IF Len(log[e]) >= 1 /\ log[e][Len(log[e])].state = "AML Screening"
       /\ pc[e] # "AML Check"
  THEN pc[e]
  ELSE "none"

\* The entries of the log of execution 1, the execution of SpecAml.
AmlEntries == {log[1][i] : i \in 1..Len(log[1])}

\* C6: every screening result with risk score >= 75 is rejected: the AML
\* stage returns aml_passed = false and manual_review_required = false and
\* the workflow goes to AML Screening Failed.
C6_RejectFrom75 ==
  \A x \in AmlEntries :
    (Screened(x) /\ x.screening.riskScore >= 75) =>
      /\ x.output.aml_passed = "false"
      /\ x.output.manual_review_required = "false"
      /\ AfterAmlCheck(1) \in {"none", "AML Screening Failed"}

\* The second branch of the decision rule applies to screening result r.
ReviewCase(r) ==
  r.riskScore < 75 /\ (r.riskScore > 50 \/ r.alerts > 0 \/ r.potentialMatches > 0)

\* C7: every screening result with risk score below 75 and (score > 50, or
\* alerts, or potential matches) is sent to manual review: aml_passed =
\* false, manual_review_required = true, and the status written is the
\* handler's manual review status.
C7_ManualReviewBelow75 ==
  \A x \in AmlEntries :
    (Screened(x) /\ ReviewCase(x.screening)) =>
      /\ x.output.aml_passed = "false"
      /\ x.output.manual_review_required = "true"
      /\ process.status = "AML_MANUAL_REVIEW"

\* C7 witness: a result with a low score and an alert, and nothing else,
\* was sent to manual review.
C7_Witness ==
  \E x \in AmlEntries :
    /\ Screened(x)
    /\ x.screening.riskScore <= 50
    /\ x.screening.alerts > 0
    /\ x.screening.potentialMatches = 0
    /\ x.output.manual_review_required = "true"

\* C8: the AML stage returns aml_passed = true exactly when the screening
\* returned a result with score <= 50, no alerts and no potential matches.
C8_PassIff ==
  \A x \in AmlEntries :
    x.state = "AML Screening" =>
      (x.output.aml_passed = "true" <=>
         (/\ Screened(x)
          /\ x.screening.riskScore <= 50
          /\ x.screening.alerts = 0
          /\ x.screening.potentialMatches = 0))

\* C8 witness: a result with score exactly 50 and no alerts or matches
\* passed.
C8_Witness ==
  \E x \in AmlEntries :
    /\ Screened(x)
    /\ x.screening.riskScore = 50
    /\ x.output.aml_passed = "true"
    /\ pc[1] = "Account Creation"

\* The call to the screening service failed, or the handler found no
\* process item or no customer (SpecAml leaves customer_id as it is, so
\* the item still shows what the handler found).
ScreenFailedOrMissing(x) ==
  x.state = "AML Screening" /\ (x.provider.kind = "error" \/ process.customer_id = 0)

ManualReviewOutcome(x) ==
  /\ x.output.aml_passed = "false"
  /\ x.output.manual_review_required = "true"

\* C9 as stated: in every environment a failed call to the screening
\* service, or missing data, ends in manual review.
C9_FailedScreenIsManualReview ==
  \A x \in AmlEntries : ScreenFailedOrMissing(x) => ManualReviewOutcome(x)

\* C9 amended: in prod a failed call to the screening service, and in every
\* environment missing data, ends in manual review; outside prod a failed
\* call is replaced by the simulated result and decided by the normal rule.
C9_FailedScreenIsManualReviewInProd ==
  \A x \in AmlEntries :
    /\ (ScreenFailedOrMissing(x) /\ (env = "prod" \/ process.customer_id = 0)) =>
         ManualReviewOutcome(x)
    /\ (x.state = "AML Screening" /\ x.provider.kind = "error" /\ env # "prod"
          /\ process.customer_id # 0) =>
         /\ x.screening = simulateAmlScreeningResult(customers[process.customer_id])
         /\ x.output.aml_passed = Bool(amlDecision(x.screening).aml_passed)

\* C9 witness: in prod the call failed for a customer whose simulated
\* result would have passed, and the stage asked for manual review.
C9_Witness ==
  \E x \in AmlEntries :
    /\ x.state = "AML Screening"
    /\ x.provider.kind = "error"
    /\ env = "prod"
    /\ process.customer_id # 0
    /\ amlDecision(simulateAmlScreeningResult(customers[process.customer_id])).aml_passed
    /\ ManualReviewOutcome(x)

\* C10: after an AML Screening Task that returned manual_review_required =
\* true and aml_passed not true, the execution goes to Manual Review and
\* nowhere else, and the Manual Review step leaves status MANUAL_REVIEW;
\* an execution is in (or ran) AML Screening Failed only if its AML Task
\* returned both flags false.
C10_ManualReviewRouting ==
  /\ [](\A e \in Executions :
          /\ (Len(log[e]) >= 5 /\ log[e][5].state = "AML Screening"
                /\ log[e][5].output.manual_review_required = "true"
                /\ log[e][5].output.aml_passed # "true") =>
               /\ Len(log[e]) = 5 => pc[e] \in {"AML Check", "Manual Review"}
               /\ Len(log[e]) > 5 => /\ Len(log[e]) = 6
                                     /\ log[e][6].state = "Manual Review"
                                     /\ pc[e] = "ExecutionSucceeded"
          /\ (pc[e] = "AML Screening Failed" \/ Ran(e, "AML Screening Failed")) =>
               /\ log[e][5].state = "AML Screening"
               /\ log[e][5].output.aml_passed = "false"
               /\ log[e][5].output.manual_review_required = "false")
  /\ [][\A e \in Executions :
          (pc[e] = "Manual Review" /\ pc'[e] # pc[e]) =>
            /\ pc'[e] = "ExecutionSucceeded"
            /\ process'.status = "MANUAL_REVIEW"]_vars

\* C10 witness: an execution ended in Manual Review with the status
\* MANUAL_REVIEW on the process item.
C10_Witness ==
  \E e \in Executions :
    /\ Len(log[e]) = 6
    /\ log[e][5].output.manual_review_required = "true"
    /\ log[e][6].state = "Manual Review"
    /\ pc[e] = "ExecutionSucceeded"
    /\ process.status = "MANUAL_REVIEW"

\* The financial Task of execution e, when it has run.
FinancialEntry(e) == log[e][4]

RanFinancial(e) ==
  Len(log[e]) >= 4 /\ FinancialEntry(e).state = "Financial Data Verification"

\* C11: when the financial handler runs on an item whose cdr_consent is not
\* true, it calls no financial client, writes no financial data (the item
\* is left as it is), and returns financial_verified = false with the
\* reason "CDR consent not granted"; and an execution whose financial Task
\* ended that way goes to Financial Verification Failed and ends there: it
\* is never in AML Screening or Account Creation and runs neither.
C11_NoConsentFailsAtOnce ==
  /\ [][\A e \in Executions :
          (/\ pc[e] = "Financial Data Verification"
           /\ pc'[e] # pc[e]
           /\ seen[e].item.present
           /\ seen[e].item.cdr_consent # "true") =>
            /\ process' = process
            /\ LET x == log'[e][Len(log'[e])]
               IN /\ x.state = "Financial Data Verification"
                  /\ x.financial.outcome = "noconsent"
                  /\ x.financial.called = <<>>
                  /\ ~x.financial.data.written
                  /\ x.financial.reason = <<"CDR consent not granted">>
                  /\ x.output.financial_verified = "false"]_vars
  /\ [](\A e \in Executions :
          (RanFinancial(e) /\ FinancialEntry(e).financial.outcome = "noconsent") =>
            /\ pc[e] \in {"Financial Check", "Financial Verification Failed",
                          "ExecutionSucceeded"}
            /\ ~Ran(e, "AML Screening")
            /\ ~Ran(e, "Account Creation")
            /\ Len(log[e]) > 4 =>
                 /\ Len(log[e]) = 5
                 /\ log[e][5].state = "Financial Verification Failed")

\* C11 witness: an execution found no consent on file in its financial
\* stage and ended in Financial Verification Failed.
C11_Witness ==
  \E e \in Executions :
    /\ RanFinancial(e)
    /\ FinancialEntry(e).financial.outcome = "noconsent"
    /\ FinancialEntry(e).financial.called = <<>>
    /\ Len(log[e]) = 5
    /\ pc[e] = "ExecutionSucceeded"

\* C12: when an execution that passed identity and biometrics and found no
\* consent in its financial stage takes its failure step, the process item
\* gets the status FINANCIAL_VERIFICATION_FAILED and the failure reason
\* "CDR consent not granted".
C12_NoConsentStatusAndReason ==
  [][\A e \in Executions :
       (/\ RanFinancial(e)
        /\ log[e][2].output.id_verified = "true"
        /\ log[e][3].output.biometric_verified = "true"
        /\ FinancialEntry(e).financial.outcome = "noconsent"
        /\ pc[e] = "Financial Verification Failed"
        /\ pc'[e] # pc[e]) =>
         /\ process'.status = "FINANCIAL_VERIFICATION_FAILED"
         /\ process'.failure_reason = "CDR consent not granted"]_vars

\* Every stage of execution e returned its positive signal.
AllPositive(e) ==
  /\ Len(log[e]) >= 6
  /\ \A k \in 1..5 : /\ log[e][k + 1].state = Stages[k]
                     /\ log[e][k + 1].output[StageFlag[k]] = "true"

\* C13: an execution whose stages all returned a positive signal goes on
\* to Onboarding Complete, whose step writes the status COMPLETED and ends
\* the execution; that step is the last one the execution takes, and under
\* the fairness of SpecFair the execution does reach its end.
C13_AllPositiveCompletes ==
  /\ [][\A e \in Executions :
          /\ (AllPositive(e) /\ Len(log[e]) = 6 /\ pc'[e] # pc[e]) =>
               \/ pc[e] = "Account Creation Check" /\ pc'[e] = "Onboarding Complete"
               \/ /\ pc[e] = "Onboarding Complete"
                  /\ pc'[e] = "ExecutionSucceeded"
                  /\ process'.status = "COMPLETED"
          /\ pc[e] = "ExecutionSucceeded" =>
               (pc'[e] = pc[e] /\ log'[e] = log[e])]_vars
  /\ [](\A e \in Executions :
          (AllPositive(e) /\ pc[e] = "ExecutionSucceeded") =>
            /\ Len(log[e]) = 7
            /\ log[e][7].state = "Onboarding Complete")
  /\ \A e \in Executions : AllPositive(e) ~> (pc[e] = "ExecutionSucceeded")

\* C13 witness: an execution passed every stage with a screening score of
\* 20, ended, and the item has the status COMPLETED.
C13_Witness ==
  \E e \in Executions :
    /\ AllPositive(e)
    /\ log[e][5].screening.riskScore = 20
    /\ log[e][5].screening.alerts = 0
    /\ log[e][5].screening.potentialMatches = 0
    /\ pc[e] = "ExecutionSucceeded"
    /\ process.status = "COMPLETED"

\* C14: the ID verification handler never finds the process with the
\* status INITIATED: when it reads the item, the details have been
\* submitted.
C14_NoIdVerificationWhileInitiated ==
  \A e \in Executions :
    (pc[e] = "ID Verification" /\ seen[e].read) =>
      /\ seen[e].item.status # "INITIATED"
      /\ seen[e].item.customer_details

\* The runs of the financial Task in the log of execution 1.
FinRuns ==
  {log[1][i] : i \in {j \in 1..Len(log[1]) :
                        log[1][j].state = "Financial Data Verification"}}

\* The consent-scoped source and the account verifier both answered.
PrimaryAndVerifierOk(x) ==
  /\ x.financial.answers.cdr.kind = "ok"
  /\ x.financial.answers.basiq.kind = "ok"

\* C15: when the statement job reports not completed on its first N polls,
\* N below the cap of 10, and COMPLETED on the next (production path, the
\* consent source and the verifier having answered), the statements are
\* returned after exactly N + 1 calls of getJobResults.
C15_CompletedAfterNPlusOnePolls ==
  \A x \in FinRuns :
    (/\ PrimaryAndVerifierOk(x)
     /\ x.financial.answers.illion.kind = "job"
     /\ x.financial.answers.illion.pending < maxAttempts) =>
      /\ x.financial.polls = x.financial.answers.illion.pending + 1
      /\ Len(x.financial.called) >= 4
      /\ x.financial.called[4] = "yodlee"

\* C15 witness: a job completed at the last poll the cap allows.
C15_Witness ==
  \E x \in FinRuns :
    /\ PrimaryAndVerifierOk(x)
    /\ x.financial.answers.illion.kind = "job"
    /\ x.financial.answers.illion.pending = maxAttempts - 1
    /\ x.financial.polls = maxAttempts
    /\ x.financial.outcome = "verified"

\* C16: no run of the financial stage polls more than 10 times; a job that
\* does not complete within the cap is polled exactly 10 times and the
\* stage then fails with the error "Timed out waiting for bank statement
\* retrieval", having called no client after the statement provider.
C16_PollingStopsWithTimeout ==
  \A x \in FinRuns :
    /\ x.financial.polls <= maxAttempts
    /\ (/\ PrimaryAndVerifierOk(x)
        /\ x.financial.answers.illion.kind = "job"
        /\ x.financial.answers.illion.pending >= maxAttempts) =>
         /\ x.financial.polls = maxAttempts
         /\ x.financial.outcome = "failed"
         /\ x.financial.called = <<"cdr", "basiq", "illion">>
         /\ Includes(x.financial.reason, "Timed out waiting for bank statement retrieval")

\* C16 witness: a job that never completed within the cap ended the stage
\* with the timeout error after 10 polls.
C16_Witness ==
  \E x \in FinRuns :
    /\ x.financial.answers.illion.kind = "job"
    /\ x.financial.answers.illion.pending = MaxPending
    /\ x.financial.polls = maxAttempts
    /\ Includes(x.financial.reason, "Timed out waiting for bank statement retrieval")
    /\ x.output.financial_verified = "false"

\* The statement-retrieval provider failed: no session, a failed status
\* call, or a job that does not complete within the cap.
StatementsFail(x) ==
  \/ x.financial.answers.illion.kind \in {"nosession", "pollerror"}
  \/ /\ x.financial.answers.illion.kind = "job"
     /\ x.financial.answers.illion.pending >= maxAttempts

\* C17: when the consent source and the verifier answered and the statement
\* provider or the enrichment provider failed, the stage returns
\* financial_verified = true.
C17_EnrichmentFailureTolerated ==
  \A x \in FinRuns :
    (/\ PrimaryAndVerifierOk(x)
     /\ (StatementsFail(x) \/ x.financial.answers.yodlee = "error")) =>
      x.output.financial_verified = "true"

\* C18: when the consent source fails, or the verifier fails after the
\* source answered, the stage returns financial_verified = false with a
\* non-empty reason, the failing client is the last one called, and no
\* financial_data is written to the item.
C18_PrimaryFailureFailsStage ==
  \A x \in FinRuns :
    /\ x.financial.answers.cdr.kind = "error" =>
         /\ x.output.financial_verified = "false"
         /\ Len(x.financial.reason) > 0
         /\ x.financial.called = <<"cdr">>
         /\ ~x.financial.data.written
         /\ ~process.financial_data.written
    /\ (x.financial.answers.cdr.kind = "ok"
          /\ x.financial.answers.basiq.kind = "error") =>
         /\ x.output.financial_verified = "false"
         /\ Len(x.financial.reason) > 0
         /\ x.financial.called = <<"cdr", "basiq">>
         /\ ~x.financial.data.written
         /\ ~process.financial_data.written

\* C18 witness: the verifier failed after the source had answered, and the
\* stage returned false with the verifier's error as its reason.
C18_Witness ==
  \E x \in FinRuns :
    /\ x.financial.answers.cdr.kind = "ok"
    /\ x.financial.answers.basiq.kind = "error"
    /\ x.output.financial_verified = "false"
    /\ Includes(x.financial.reason, "Failed to verify account with Basiq")
    /\ process.status = "FINANCIAL_VERIFICATION_FAILED"

\* The runs of Onboarding Complete in the logs.
Completions ==
  {x \in UNION {{log[e][i] : i \in 1..Len(log[e])} : e \in Executions} :
     x.state = "Onboarding Complete"}

C20_TransientErrorRetried ==
  \A x \in AmlEntries :
    x.state = "AML Screening" =>
      /\ x.provider.kind = "error" => screeningRequests(env, x.provider) >= 2
      /\ x.provider.kind = "ok" => screeningRequests(env, x.provider) = 1

\* Every Task that ran, of every execution.
Entries == UNION {{log[e][i] : i \in 1..Len(log[e])} : e \in Executions}

\* C21: every result that is a stand-in of the code for a provider's answer
\* (the AML simulation, the development results of the DVS, of the face
\* comparison and of the liveness detection, the mock data of the
\* financial clients) carries simulated: true.
C21_StubsCarrySimulated ==
  \A x \in Entries :
    /\ x.verification.stubs \subseteq x.verification.tagged
    /\ x.financial.stubs \subseteq x.financial.tagged

\* The calls for whose answer the code has a stand-in.
Stubbed == {"dvs", "compareFaces", "liveness", "screening"}

\* C22: outside prod a failed call of a provider that has a stand-in is
\* answered with the stand-in, and in prod no result is a stand-in.
C22_FailureFallsBackOutsideProd ==
  \A x \in Entries :
    /\ env # "prod" => (x.verification.failed \cap Stubbed) \subseteq x.verification.stubs
    /\ env = "prod" => (x.verification.stubs = {} /\ x.financial.stubs = {})

\* The Tasks of the four stage handlers, and the signal each returns.
StageEntries == {x \in Entries : x.state \in StageStates}

Signal(x) ==
  CASE x.state = "ID Verification" -> x.output.id_verified
    [] x.state = "Biometric Authentication" -> x.output.biometric_verified
    [] x.state = "AML Screening" -> x.output.aml_passed
    [] x.state = "Account Creation" -> x.output.created

\* C23 as stated: the handler always returns its document (no exception
\* leaves it), and when a call of an external provider failed the signal
\* is negative and the document has a reason.
C23_ProviderFailureGivesNegativeResult ==
  \A x \in StageEntries :
    /\ x.output.process_id
    /\ Signal(x) # "absent"
    /\ x.verification.failed # {} => (Signal(x) = "false" /\ x.verification.reason)

\* C23 amended: the handler always returns its document, and when a call
\* of an external provider failed and was not answered with the stand-in
\* of the code, the signal is negative and the document has a reason.
C23_UnreplacedFailureGivesNegativeResult ==
  \A x \in StageEntries :
    /\ x.output.process_id
    /\ Signal(x) # "absent"
    /\ (x.verification.failed \ x.verification.stubs) # {} =>
         (Signal(x) = "false" /\ x.verification.reason)

\* C23 witness: in prod the Document Verification Service failed and the ID
\* handler returned id_verified = false with a reason.
C23_Witness ==
  \E x \in StageEntries :
    /\ env = "prod"
    /\ x.state = "ID Verification"
    /\ x.verification.failed = {"dvs"}
    /\ x.output.id_verified = "false"
    /\ x.verification.reason

\* The execution is over.
Ended(e) == pc[e] \in {"ExecutionSucceeded", "ExecutionFailed"}

\* Execution e ends with this step, coming from the state `from`.
Ends(e) == ~Ended(e) /\ pc'[e] \in {"ExecutionSucceeded", "ExecutionFailed"}

C25_PublishFailureDoesNotFailTheStage ==
  [][\A e \in Executions :
       (Len(log'[e]) = Len(log[e]) + 1
          /\ "sns" \in log'[e][Len(log'[e])].verification.failed) =>
         /\ log'[e][Len(log'[e])].output.process_id
         /\ process'.status \in {"FAILED", "MANUAL_REVIEW"}]_vars

\* C26: when the text generation fails, initOnboarding still puts the item,
\* starts the workflow and answers 200 with the default welcome message,
\* and completeOnboarding still writes COMPLETED and returns its document
\* with the default recommendations.
C26_TextGenerationFailureTolerated ==
  [][/\ InitOnboarding("error") =>
          /\ process'.present
          /\ process'.status = "INITIATED"
          /\ process'.welcome_message = DefaultWelcome
          /\ pc'[1] = "Collect Personal Details"
          /\ response'.statusCode = 200
          /\ response'.welcome_message = DefaultWelcome
     /\ \A e \in Executions :
          completeOnboarding(e, "error") =>
            /\ process'.status = "COMPLETED"
            /\ log'[e][Len(log'[e])].output.process_id
            /\ log'[e][Len(log'[e])].financial.recommendations
                 = DefaultRecommendations]_vars

\* C26 witness: the item carries the default welcome message and the
\* execution completed with the default recommendations.
C26_Witness ==
  /\ process.welcome_message = DefaultWelcome
  /\ process.status = "COMPLETED"
  /\ \E x \in Completions :
       x.output.process_id /\ x.financial.recommendations = DefaultRecommendations

\* C27: a call returns the cached token only when the cache has one whose
\* expiresAt is later than the call's reading of the clock; a call that
\* finds the cache empty or expired goes on to acquire a token; and the
\* expiresAt of the cache is never later than the time its token was
\* issued plus the lifetime it was issued for.
C27_TokenCacheNeverServesExpired ==
  /\ [](tokenCache.token # NoToken =>
          tokenCache.expiresAt
            <= tokenCache.token.issued_at + (tokenCache.token.expires_in * Second))
  /\ [][\A c \in Callers :
          (calls[c].at = "idle" /\ calls'[c].at # "idle") =>
            /\ calls'[c].served = "cache" =>
                 /\ tokenCache.token # NoToken
                 /\ tokenCache.expiresAt > now
                 /\ calls'[c].token = tokenCache.token
            /\ (tokenCache.token = NoToken \/ tokenCache.expiresAt <= now) =>
                 calls'[c].at = "awaiting"]_vars

\* C27 witness: one call was served from the cache, and a later one found
\* that token expired and is acquiring a new one.
C27_Witness ==
  \E c, d \in Callers :
    /\ calls[c].served = "cache"
    /\ calls[c].token = tokenCache.token
    /\ calls[d].at = "awaiting"
    /\ calls[d].now >= tokenCache.expiresAt

\* C28: a process has at most one customer record, and its customer_id,
\* once set, does not change.
C28_CustomerIdSetOnce ==
  /\ [](Len(customers) <= 1)
  /\ [][process.customer_id # 0 => process'.customer_id = process.customer_id]_vars

\* A body storeCustomerDetails has to reject.
Rejected(d) ==
  \/ d.process_id # "returned"
  \/ ~d.customer_details
  \/ d.name = NoName
  \/ ~d.dob
  \/ ~d.address

\* C29: storeCustomerDetails answers a body without process_id, without
\* customer_details or without one of name, dob and address with 400, a
\* complete body with an unknown process_id with 404, and writes nothing
\* in either case.
C29_InvalidDetailsRejectedWithoutWrite ==
  [][\A d \in DetailsRequests :
       (Rejected(d) /\ storeCustomerDetails(d)) =>
         /\ response'.statusCode =
              IF d.process_id = "unknown" /\ d.customer_details /\ d.name # NoName
                 /\ d.dob /\ d.address
              THEN 404 ELSE 400
         /\ UNCHANGED <<process, customers, accounts>>]_vars

\* C29 witness: a body without address was answered with 400 and the
\* process has no customer.
C29_Witness ==
  /\ response = Answer(400, <<"Missing required field", "address">>)
  /\ process.present
  /\ process.customer_id = 0
  /\ customers = <<>>

\* C30: no step removes the process item or changes its created_at or its
\* expiry_time, and expiry_time is the creation time plus 7 days.
C30_ProcessRecordKept ==
  /\ [](process.present =>
          process.expiry_time = (process.created_at \div Second) + SevenDays)
  /\ [][process.present =>
          /\ process'.present
          /\ process'.created_at = process.created_at
          /\ process'.expiry_time = process.expiry_time]_vars

\* C30 witness: an execution went all the way to COMPLETED and one ended in
\* NOTIFY_FAILURE, and the item still has the times of its creation.
C30_Witness ==
  /\ process.present
  /\ process.created_at = Second
  /\ process.expiry_time = 1 + SevenDays
  /\ process.account_id # 0
  /\ \E e \in Executions : Ended(e) /\ log[e][Len(log[e])].state \in FailureStates

\* The five bands of getRiskCategory, from the lowest to the highest.
RiskBands == <<"LOW", "LOW_MEDIUM", "MEDIUM", "MEDIUM_HIGH", "HIGH">>

BandRank(category) == CHOOSE i \in DOMAIN RiskBands : RiskBands[i] = category

RiskCategories == {RiskBands[i] : i \in DOMAIN RiskBands}

\* C31: the riskCategory of a screening result is the band of its score,
\* one of five ordered bands that never goes down as the score goes up, and
\* the decision of the handler does not read it: the same result under any
\* other riskCategory gets the decision the handler returned.
C31_BandsMonotoneAndUnusedByDecision ==
  \A x \in AmlEntries :
    Screened(x) =>
      LET r == x.screening
      IN /\ r.riskCategory = getRiskCategory(r.riskScore)
         /\ r.riskCategory \in RiskCategories
         /\ \A other \in 0..MaxScore :
              r.riskScore <= other =>
                BandRank(r.riskCategory) <= BandRank(getRiskCategory(other))
         /\ \A c \in RiskCategories :
              LET d == amlDecision([r EXCEPT !.riskCategory = c])
              IN /\ d = amlDecision(r)
                 /\ x.output.aml_passed = Bool(d.aml_passed)
                 /\ x.output.manual_review_required = Bool(d.manual_review_required)

\* C31 witness: the service scored a customer 80, the result carries
\* MEDIUM_HIGH and the handler rejected on the score.
C31_Witness ==
  \E x \in AmlEntries :
    /\ Screened(x)
    /\ x.screening.riskScore = 80
    /\ x.screening.riskCategory = "MEDIUM_HIGH"
    /\ ~x.screening.simulated
    /\ x.output.aml_passed = Bool(FALSE)
    /\ x.output.manual_review_required = Bool(FALSE)

\* C32: every process item of the table is one initOnboarding put, with its
\* created_at and its expiry_time, and no step on a process_id that has no
\* item brings one into existence unless it is that put.
C32_ItemsComeFromInitOnboarding ==
  /\ [](\A item \in {process, stray} :
          item.present =>
            item.status # "" /\ item.created_at # 0 /\ item.expiry_time # 0)
  /\ [][/\ (~process.present /\ process'.present) =>
             \E b \in BedrockAnswers : InitOnboarding(b)
        /\ ~stray.present => ~stray'.present]_vars

\* The Account Creation Tasks that ran.
AccountEntries == {x \in Entries : x.state = "Account Creation"}

\* C33: an invocation of the account creation handler that returned
\* created = false put no account record and sent no notification, and a
\* step that adds an account record is one that returns created = true and
\* writes the account_id of that record on the process item.
C33_NoAccountWithoutCreatedTrue ==
  /\ [](\A x \in AccountEntries :
          x.output.created = "false" =>
            /\ x.verification.answers[1] # "true"
            /\ x.verification.answers[2] = "none")
  /\ [][Len(accounts') > Len(accounts) =>
          /\ \E e \in Executions :
               /\ Len(log'[e]) = Len(log[e]) + 1
               /\ log'[e][Len(log'[e])].output.created = "true"
          /\ process'.account_id = Len(accounts')]_vars

\* C34: a process item with status COMPLETED has an account_id, and the
\* COMPLETE_ONBOARDING step of an execution comes only after the Account
\* Creation Task of that execution returned created = true, with the
\* account_id on the item.
C34_CompletedHasAccount ==
  /\ [](process.status = "COMPLETED" => process.account_id # 0)
  /\ [][\A e \in Executions :
          (pc[e] = "Onboarding Complete" /\ pc'[e] # pc[e]) =>
            /\ process'.status = "COMPLETED"
            /\ process.account_id # 0
            /\ \E x \in AccountEntries :
                 /\ x = log[e][Len(log[e])]
                 /\ x.output.created = "true"
                 /\ x.verification.answers = <<"true", "sent", "true">>]_vars

\* C34 witness: the item is COMPLETED with the account_id of the one
\* account record.
C34_Witness ==
  /\ process.status = "COMPLETED"
  /\ process.account_id = 1
  /\ Len(accounts) = 1
  /\ \E e \in Executions : pc[e] = "ExecutionSucceeded"

\* C35: the biometric handler returns biometric_verified = true only when
\* a face was detected in the selfie and in the ID document image, the
\* comparison of the two matched and the liveness check passed.
C35_BiometricVerifiedNeedsAllChecks ==
  \A x \in StageEntries :
    (x.state = "Biometric Authentication" /\ x.output.biometric_verified = "true") =>
      /\ x.verification.answers[1] = "face"
      /\ x.verification.answers[2] = "face"
      /\ compareFacesMatched(env, x.verification.answers[3]) = "match"
      /\ performLivenessDetection(env, x.verification.answers[4]) = "live"

\* The ID Verification Tasks that ran.
IdEntries == {x \in StageEntries : x.state = "ID Verification"}

\* C36: the ID verification handler returns id_verified = true only when a
\* name, a date of birth and a document number were extracted, the name and
\* the date of birth match the submitted details, and the Document
\* Verification Service answered verified or, in dev, its failed call was
\* replaced by the development result; in prod a failed call of the
\* service gives id_verified = false.
C36_IdVerifiedNeedsAllChecks ==
  \A x \in IdEntries :
    LET a == x.verification.answers
    IN /\ x.output.id_verified = "true" =>
            /\ a[4] \notin {"", "none"} /\ a[5] \notin {"", "none"} /\ a[6] = "true"
            /\ nameMatch(a[4])
            /\ a[5] = "same"
            /\ \/ a[3] = "verified"
               \/ a[3] = "error" /\ env = "dev" /\ "dvs" \in x.verification.tagged
       /\ (env = "prod" /\ a[3] = "error") => x.output.id_verified = "false"

\* C36 witness: every field was found and matches, the service answered
\* verified in prod, and the handler returned id_verified = true.
C36_Witness ==
  \E x \in IdEntries :
    /\ env = "prod"
    /\ x.verification.answers = <<"true", "true", "verified", "same", "same", "true">>
    /\ x.output.id_verified = "true"

\* The three shapes of the result of the AML handler.
AmlShapes ==
  {<<"true", "false">>, <<"false", "true">>, <<"false", "false">>}

\* The state each shape is routed to.
AmlRoute(shape) ==
  CASE shape = <<"true", "false">> -> "Account Creation"
    [] shape = <<"false", "true">> -> "Manual Review"
    [] shape = <<"false", "false">> -> "AML Screening Failed"

\* C37: the AML handler returns (aml_passed, manual_review_required) as
\* (true, false), (false, true) or (false, false), never both true, and
\* the AML Check sends each to its one state: Account Creation, Manual
\* Review, AML Screening Failed.
C37_AmlResultHasOneRoute ==
  \A x \in AmlEntries :
    x.state = "AML Screening" =>
      LET shape == <<x.output.aml_passed, x.output.manual_review_required>>
      IN /\ shape \in AmlShapes
         /\ amlChoice(x.output) = AmlRoute(shape)
         /\ AfterAmlCheck(1) \in {"none", AmlRoute(shape)}

\* C37 witness: the handler caught an error of the screening service in
\* prod, returned (false, true), and the AML Check went to Manual Review.
C37_Witness ==
  /\ env = "prod"
  /\ AfterAmlCheck(1) = "Manual Review"
  /\ \E x \in AmlEntries :
       /\ x.state = "AML Screening"
       /\ x.provider = ProviderError
       /\ x.output.aml_passed = "false"
       /\ x.output.manual_review_required = "true"

\* C38: the manual_review_reason the AML handler records names a condition
\* that holds of the screening result: 'Alerts detected' only with alerts,
\* 'Potential watchlist matches' only with potential matches.
C38_ReviewReasonHolds ==
  \A x \in AmlEntries :
    Screened(x) =>
      /\ x.verification.answers[2] = "Alerts detected" => x.screening.alerts > 0
      /\ x.verification.answers[2] = "Potential watchlist matches" =>
           x.screening.potentialMatches > 0

\* The Tasks of the AML handler that ended on a simulated result, with the
\* name that was screened.
Simulated(x) == Screened(x) /\ x.screening.simulated

ScreenedName == customers[process.customer_id]

\* C39: the simulated riskScore is an integer from 0 to 100 for every
\* name, and a name with a PEP or a sanctions indicator gets alerts, so it
\* is not passed.
C39_SimulatedScoreInRange ==
  \A x \in AmlEntries :
    Simulated(x) =>
      /\ x.screening.riskScore \in 0..MaxScore
      /\ (ScreenedName.pep \/ ScreenedName.sanc) =>
           /\ x.screening.alerts > 0
           /\ x.output.aml_passed = "false"
           /\ process.status # "AML_SCREENING_PASSED"

\* C39 witness: a name with both indicators whose additions pass 100 was
\* simulated at 100 with two alerts.
C39_Witness ==
  \E x \in AmlEntries :
    /\ Simulated(x)
    /\ ScreenedName.pep /\ ScreenedName.sanc
    /\ ((ScreenedName.len * 3) % 100) + 25 + 40 > MaxScore
    /\ x.screening.riskScore = MaxScore
    /\ x.screening.alerts = 2

====
